---- MODULE Spec2Model ----
(***************************************************************************)
(* A model of the download service of assppweb: the Download Manager       *)
(* (backend/src/services/downloadManager.ts), the Chunked Downloader       *)
(* (backend/src/services/chunkedDownloader.ts) and the injector that runs   *)
(* after a download.                                                        *)
(*                                                                         *)
(* The service runs on one Node.js event loop.  One action of the model is *)
(* one turn of that loop: an entry point of the Manager called by a route, *)
(* a timer that fires, or the completion of one I/O operation, together    *)
(* with every promise continuation that the turn makes runnable (these run *)
(* as microtasks before the loop takes its next turn).                     *)
(*                                                                         *)
(* Strings are sequences of one-character strings; a path is a sequence of *)
(* segments.  Sizes are counted in GiB, the unit of MAX_DOWNLOAD_SIZE.     *)
(***************************************************************************)
EXTENDS Integers, Sequences, FiniteSets, TLC

\* ------------------------------------------------------------------------
\* Bounds of the model
\* ------------------------------------------------------------------------
\* createTask is called at most MaxTasks times.
MaxTasks == 2
\* startDownload is called at most MaxRuns times (by createTask and resumeTask).
MaxRuns == 2
\* The largest Content-Length the origin advertises for an acceptable file.
MaxLen == 1
\* The same, where one download is followed byte by byte (SpecDL).
MaxLenDL == 2
\* The configured number of download threads (DOWNLOAD_THREADS, 1..32).
DOWNLOAD_THREADS == 2
\* The largest file that splitChunks is called on by itself (SpecSplit).
MaxSplitSize == 40

\* ------------------------------------------------------------------------
\* Program constants
\* ------------------------------------------------------------------------
CHUNK_RETRY_COUNT == 3
\* The largest number of threads that config.ts lets DOWNLOAD_THREADS be.
MaxThreads == 32
MAX_DOWNLOAD_SIZE == 8

\* ------------------------------------------------------------------------
\* Sequences and paths
\* ------------------------------------------------------------------------
IsPrefix(p, s) == Len(p) <= Len(s) /\ SubSeq(s, 1, Len(p)) = p

Front(s) == SubSeq(s, 1, Len(s) - 1)

Last(s) == s[Len(s)]

Min(a, b) == IF a <= b THEN a ELSE b

\* x / y rounded up, for x >= 0 and y > 0 (Math.ceil(x / y)).
CeilDiv(x, y) == (x + y - 1) \div y

\* Math.round(x / y * 100) for x >= 0 and y > 0: rounds half up.
RoundPercent(x, y) == (200 * x + y) \div (2 * y)

\* path.resolve on a sequence of segments: "." is dropped and ".." removes
\* the segment before it (at the root it is dropped).
RECURSIVE Resolve(_)
Resolve(p) ==
  IF p = <<>> THEN <<>>
  ELSE LET r == Resolve(Front(p))
           s == Last(p)
       IN  IF s = <<".">> THEN r
           ELSE IF s = <<".", ".">> THEN (IF r = <<>> THEN <<>> ELSE Front(r))
           ELSE Append(r, s)

\* config.dataDir, resolved.
DataDir == << <<"d", "a", "t", "a">> >>

PACKAGES_DIR == Append(DataDir, <<"p", "k", "g">>)

\* resolved.startsWith(packagesBase + path.sep)
WithinPackages(resolved) ==
  /\ Len(resolved) > Len(PACKAGES_DIR)
  /\ IsPrefix(PACKAGES_DIR, resolved)

\* path.dirname of a resolved absolute path.
Dirname(p) == IF p = <<>> THEN <<>> ELSE Front(p)

\* Every proper ancestor directory of p and p itself.
Prefixes(p) == { SubSeq(p, 1, n) : n \in 0..Len(p) }

\* ------------------------------------------------------------------------
\* safePathSegment
\* ------------------------------------------------------------------------
Letters == {"a", "b", "A", "1", "2"}

\* The characters SAFE_SEGMENT_RE admits: [a-zA-Z0-9._-].
SafeChars == Letters \cup {".", "_", "-"}

\* SAFE_SEGMENT_RE.test(value)
SAFE_SEGMENT_RE(value) ==
  /\ value # <<>>
  /\ \A i \in 1..Len(value) : value[i] \in SafeChars

\* value.replace(/[^a-zA-Z0-9._-]/g, "_")
Cleaned(value) ==
  [i \in 1..Len(value) |-> IF value[i] \in SafeChars THEN value[i] ELSE "_"]

IsDots(value) == value = <<".">> \/ value = <<".", ".">>

\* safePathSegment without its two checks for "." and "..".
safePathSegmentWithDots(value) ==
  IF value = <<>> THEN [ok |-> FALSE, val |-> <<>>]
  ELSE IF SAFE_SEGMENT_RE(value) THEN [ok |-> TRUE, val |-> value]
  ELSE [ok |-> TRUE, val |-> Cleaned(value)]

\* The result of safePathSegment: ok = FALSE when it throws "Invalid <label>".
safePathSegment(value) ==
  IF value = <<>> \/ IsDots(value) THEN [ok |-> FALSE, val |-> <<>>]
  ELSE IF SAFE_SEGMENT_RE(value) THEN [ok |-> TRUE, val |-> value]
  ELSE LET cleaned == Cleaned(value)
       IN  IF cleaned = <<>> \/ IsDots(cleaned)
           THEN [ok |-> FALSE, val |-> <<>>]
           ELSE [ok |-> TRUE, val |-> cleaned]

\* ------------------------------------------------------------------------
\* validateDownloadURL
\* ------------------------------------------------------------------------
\* A URL string is modelled by what new URL(url) makes of it: parsed = FALSE
\* when the constructor throws, else the protocol and the hostname, a
\* sequence of dot-separated labels that the parser has put in lower case.
Digits == {"0", "1", "2", "3", "4", "5", "6", "7", "8", "9"}

\* /\.apple\.com$/i on the hostname: the last two labels, and a dot before.
ALLOWED_DOWNLOAD_HOSTS_RE(hostname) ==
  /\ Len(hostname) >= 3
  /\ hostname[Len(hostname) - 1] \in {"apple", "APPLE"}
  /\ hostname[Len(hostname)] \in {"com", "COM"}

\* /^\d+\.\d+\.\d+\.\d+$/ on the hostname.
IsIPv4(hostname) ==
  /\ Len(hostname) = 4
  /\ \A i \in 1..4 : hostname[i] \in Digits

\* validateDownloadURL without its check of the protocol.
validateDownloadURLAnyScheme(url) ==
  /\ url.parsed
  /\ ALLOWED_DOWNLOAD_HOSTS_RE(url.hostname)
  /\ ~ (IsIPv4(url.hostname) \/ (url.hostname # <<>> /\ url.hostname[1] = "["))

\* TRUE when validateDownloadURL returns, FALSE when it throws.
validateDownloadURL(url) ==
  /\ url.parsed
  /\ url.protocol = "https:"
  /\ ALLOWED_DOWNLOAD_HOSTS_RE(url.hostname)
  /\ ~ (IsIPv4(url.hostname) \/ (url.hostname # <<>> /\ url.hostname[1] = "["))

NoURL == [parsed |-> FALSE, protocol |-> "", hostname |-> <<>>]

AppleURL == [parsed |-> TRUE, protocol |-> "https:", hostname |-> <<"cdn", "apple", "com">>]

\* ------------------------------------------------------------------------
\* State
\* ------------------------------------------------------------------------
VARIABLES
  heap,              \* every DownloadTask object of the process, by task id
  tasks,             \* the keys of the map `tasks`: the ids it holds
  abortControllers,  \* the map `abortControllers`: task id -> the run that made the controller
  chunkDownloaders,  \* the map `chunkDownloaders`: task id -> the run that made the Downloader
  runs,              \* every call of startDownload so far, by run number
  files,             \* the files on disk (absolute paths)
  dirs,              \* the directories on disk (absolute paths)
  snapshot,          \* the content of tasks.json
  config,            \* config.autoCleanupDays and config.autoCleanupMaxMB
  now,               \* Date.now(), in days
  stat               \* what fs.statSync gives for a path: size (MB) and mtimeMs (days)

vars ==
  <<heap, tasks, abortControllers, chunkDownloaders, runs, files, dirs, snapshot,
    config, now, stat>>

\* The state as one value, so that the steps of a handler compose.
Cur ==
  [heap |-> heap, tasks |-> tasks, abortControllers |-> abortControllers,
   chunkDownloaders |-> chunkDownloaders, runs |-> runs, files |-> files,
   dirs |-> dirs, snapshot |-> snapshot, config |-> config, now |-> now,
   stat |-> stat]

Commit(S) ==
  /\ heap' = S.heap
  /\ tasks' = S.tasks
  /\ abortControllers' = S.abortControllers
  /\ chunkDownloaders' = S.chunkDownloaders
  /\ runs' = S.runs
  /\ files' = S.files
  /\ dirs' = S.dirs
  /\ snapshot' = S.snapshot
  /\ config' = S.config
  /\ now' = S.now
  /\ stat' = S.stat

\* Map.set, Map.delete and Map.has on a map held as a function on its keys.
MapSet(m, k, v) == [x \in DOMAIN m \cup {k} |-> IF x = k THEN v ELSE m[x]]

MapDelete(m, k) == [x \in DOMAIN m \ {k} |-> m[x]]

MapHas(m, k) == k \in DOMAIN m

EmptyMap == <<>>

\* config.autoCleanupDays and config.autoCleanupMaxMB when the environment
\* sets neither.
DefaultConfig == [autoCleanupDays |-> 0, autoCleanupMaxMB |-> 0]

\* The ids that createTask gives out.
TaskIds == 1..MaxTasks

NoPath == <<>>

NoError == "undefined"

\* `${task.id}.ipa`
IpaName(id) == <<ToString(id), ".ipa">>

\* `${this.destPath}.part${chunk.index}`
PartPath(destPath, index) ==
  Append(Front(destPath), Last(destPath) \o <<".part", ToString(index)>>)

\* entry.startsWith(base + ".part") for an entry of the directory of destPath
IsPartOf(destPath, file) ==
  /\ file # <<>>
  /\ Dirname(file) = Dirname(destPath)
  /\ IsPrefix(Append(Last(destPath), ".part"), Last(file))

\* fs.readdirSync(dir).length === 0
IsEmptyDir(S, dir) ==
  /\ \A f \in S.files : Dirname(f) # dir
  /\ \A d \in S.dirs : d = <<>> \/ Dirname(d) # dir

\* fs.mkdirSync(dir, { recursive: true })
mkdirRecursive(S, dir) == [S EXCEPT !.dirs = @ \cup (Prefixes(dir) \ {<<>>})]

\* fs.createWriteStream(path) once it has opened: the file exists (empty, or
\* truncated) when its directory does; otherwise the stream fails with ENOENT.
CanOpen(S, path) == Dirname(path) \in S.dirs

createWriteStream(S, path) == [S EXCEPT !.files = @ \cup {path}]

\* ------------------------------------------------------------------------
\* sanitizeTaskForResponse
\* ------------------------------------------------------------------------
\* fs.existsSync(path)
existsSync(S, path) == Resolve(path) \in S.files

\* sanitizeTaskForResponse that takes three of the four fields out.
sanitizeTaskKeepingFilePath(S, id) ==
  LET task == S.heap[id]
      safe == DOMAIN task \ {"downloadURL", "sinfs", "iTunesMetadata"}
  IN  [f \in safe \cup {"hasFile"} |->
         IF f = "hasFile"
         THEN task.filePath # NoPath /\ existsSync(S, task.filePath)
         ELSE task[f]]

\* What the routes send for the task id: the fields of the task but four,
\* and hasFile.
sanitizeTaskForResponse(S, id) ==
  LET task == S.heap[id]
      safe == DOMAIN task \ {"downloadURL", "sinfs", "iTunesMetadata", "filePath"}
  IN  [f \in safe \cup {"hasFile"} |->
         IF f = "hasFile"
         THEN task.filePath # NoPath /\ existsSync(S, task.filePath)
         ELSE task[f]]

\* ------------------------------------------------------------------------
\* persistTasks
\* ------------------------------------------------------------------------
SnapshotEntry(S, id) ==
  [id |-> id, accountHash |-> S.heap[id].accountHash,
   bundleID |-> S.heap[id].bundleID, version |-> S.heap[id].version,
   status |-> S.heap[id].status, progress |-> S.heap[id].progress,
   filePath |-> S.heap[id].filePath, downloadURL |-> NoURL, sinfs |-> 0,
   iTunesMetadata |-> FALSE]

persistTasks(S) ==
  [S EXCEPT !.snapshot =
     [kind |-> "array",
      items |-> { SnapshotEntry(S, id) :
                    id \in { i \in S.tasks : /\ S.heap[i].status = "completed"
                                             /\ S.heap[i].filePath # NoPath } }]]

\* ------------------------------------------------------------------------
\* AbortController.abort and ChunkedDownloader.abort
\* ------------------------------------------------------------------------
\* ac.abort() on the requests of a run.  A request that awaits its response
\* rejects with an AbortError in a microtask of the same turn (marked "abort"
\* here, and unwound by Microtasks).  A request whose body is being piped to
\* its file has the pipeline destroyed: the pipeline rejects once the file
\* is closed, in a later turn ("closing").
RejectChunks(chunks) ==
  [i \in 1..Len(chunks) |->
     IF chunks[i].st = "fetch" THEN [chunks[i] EXCEPT !.st = "abort"]
     ELSE IF chunks[i].st = "stream" THEN [chunks[i] EXCEPT !.st = "closing"]
     ELSE chunks[i]]

\* controller.abort() of run r: the probe and the single-stream request carry
\* the signal itself; a chunk request carries its own controller, which the
\* listener added at the start of the attempt aborts.
controllerAbort(S, r) ==
  IF S.runs[r].signal THEN S
  ELSE [S EXCEPT !.runs[r].signal = TRUE,
                 !.runs[r].rejected = S.runs[r].pc \in {"probe", "fetch"},
                 !.runs[r].pc = IF @ = "stream" THEN "closing" ELSE @,
                 !.runs[r].chunks = RejectChunks(@)]

\* downloader.abort() of run r: sets the flag, aborts every registered chunk
\* controller and removes the part-files found beside the destination.
downloaderAbort(S, r) ==
  LET destPath == S.runs[r].destPath
  IN  [S EXCEPT !.runs[r].aborted = TRUE,
                !.runs[r].chunks = RejectChunks(@),
                !.files = IF Dirname(destPath) \in S.dirs
                          THEN { f \in @ : ~ IsPartOf(destPath, f) }
                          ELSE @]

\* ------------------------------------------------------------------------
\* startDownload: the catch block, and what follows `await download()`
\* ------------------------------------------------------------------------
\* cleanPartFiles(chunkCount) of run r
cleanPartFiles(S, r) ==
  LET run == S.runs[r]
  IN  [S EXCEPT !.files =
         @ \ { PartPath(run.destPath, i - 1) : i \in 1..Len(run.chunks) }]

\* catchRun without lines 506-507: the entries of the two maps are kept.
catchRunKeepingEntries(S, r, err) ==
  LET id == S.runs[r].task
      S1 == [S EXCEPT !.runs[r].timer = FALSE,
                      !.runs[r].pc = "ended"]
  IN  IF err = "AbortError"
      THEN IF S.heap[id].status = "paused" THEN S1
           ELSE [S1 EXCEPT !.heap[id].status = "failed",
                           !.heap[id].error = "Download timed out"]
      ELSE [S1 EXCEPT !.heap[id].status = "failed",
                      !.heap[id].error = "Download failed"]

\* The catch block of startDownload for run r; err is the name of the error.
catchRun(S, r, err) ==
  LET id == S.runs[r].task
      S1 == [S EXCEPT !.chunkDownloaders = MapDelete(@, id),
                      !.abortControllers = MapDelete(@, id),
                      !.runs[r].timer = FALSE,
                      !.runs[r].pc = "ended"]
  IN  IF err = "AbortError"
      THEN IF S.heap[id].status = "paused" THEN S1
           ELSE [S1 EXCEPT !.heap[id].status = "failed",
                           !.heap[id].error = "Download timed out"]
      ELSE [S1 EXCEPT !.heap[id].status = "failed",
                      !.heap[id].error = "Download failed"]

\* The catch block of download(): the chunked run r rejects with err.
downloadCatch(S, r, err) == catchRun(cleanPartFiles(S, r), r, err)

\* completeRun without lines 498-500: the secret fields are kept.
completeRunKeepingSecrets(S, r) ==
  LET id == S.runs[r].task
  IN  persistTasks([S EXCEPT !.heap[id].status = "completed",
                             !.heap[id].progress = 100,
                             !.runs[r].pc = "ended"])

\* Lines 494-504 of startDownload: the task completes.
completeRun(S, r) ==
  LET id == S.runs[r].task
  IN  persistTasks([S EXCEPT !.heap[id].status = "completed",
                             !.heap[id].progress = 100,
                             !.heap[id].downloadURL = NoURL,
                             !.heap[id].sinfs = 0,
                             !.heap[id].iTunesMetadata = FALSE,
                             !.runs[r].pc = "ended"])

\* Lines 481-492 of startDownload: download() has resolved for run r.  With
\* signature blobs the run goes on to inject, which first opens the archive.
afterDownload(S, r) ==
  LET id == S.runs[r].task
      S1 == [S EXCEPT !.chunkDownloaders = MapDelete(@, id),
                      !.abortControllers = MapDelete(@, id),
                      !.runs[r].timer = FALSE]
  IN  IF S.heap[id].sinfs > 0
      THEN [S1 EXCEPT !.heap[id].status = "injecting",
                      !.heap[id].progress = 100,
                      !.runs[r].pc = "inject"]
      ELSE completeRun(S1, r)

\* ------------------------------------------------------------------------
\* Microtasks: the continuations of the requests a turn has aborted
\* ------------------------------------------------------------------------
DropAborted(chunks) ==
  [i \in 1..Len(chunks) |->
     IF chunks[i].st = "abort" THEN [chunks[i] EXCEPT !.st = "dead"] ELSE chunks[i]]

\* Run r after its aborted requests have rejected with an AbortError: the
\* probe's rejection is swallowed and the single-stream request that follows
\* is refused at once; a chunk's rejection leaves downloadChunk and rejects
\* Promise.all, unless that has been settled before.
Unwind(S, r) ==
  LET run == S.runs[r]
  IN  IF run.rejected
      THEN catchRun([S EXCEPT !.runs[r].rejected = FALSE], r, "AbortError")
      ELSE IF \E i \in 1..Len(run.chunks) : run.chunks[i].st = "abort"
      THEN LET S1 == [S EXCEPT !.runs[r].chunks = DropAborted(@)]
           IN  IF run.pc = "chunks" THEN downloadCatch(S1, r, "AbortError") ELSE S1
      ELSE S

RECURSIVE UnwindFrom(_, _)
UnwindFrom(S, r) == IF r > Len(S.runs) THEN S ELSE UnwindFrom(Unwind(S, r), r + 1)

Microtasks(S) == UnwindFrom(S, 1)

\* ------------------------------------------------------------------------
\* ChunkedDownloader: splitChunks, downloadChunk, mergeChunks
\* ------------------------------------------------------------------------
\* splitChunks without the Math.min of line 84: the last chunk is not cut at
\* the last byte.
splitChunksUnclamped(totalSize, threads) ==
  LET chunkSize == CeilDiv(totalSize, threads)
      count == Cardinality({ i \in 0..(threads - 1) : i * chunkSize <= totalSize - 1 })
  IN  [k \in 1..count |->
         [index |-> k - 1,
          start |-> (k - 1) * chunkSize,
          end   |-> (k - 1) * chunkSize + chunkSize - 1]]

\* splitChunks(totalSize) with `threads` threads: the chunk ranges in index
\* order (the loop breaks at the first start beyond the last byte).
splitChunks(totalSize, threads) ==
  LET chunkSize == CeilDiv(totalSize, threads)
      count == Cardinality({ i \in 0..(threads - 1) : i * chunkSize <= totalSize - 1 })
  IN  [k \in 1..count |->
         [index |-> k - 1,
          start |-> (k - 1) * chunkSize,
          end   |-> Min((k - 1) * chunkSize + chunkSize - 1, totalSize - 1)]]

\* downloadChunk of one chunk as it starts: its request is in flight.  attempt
\* is the loop counter, downloaded the chunkDownloaded of the attempt's body,
\* bytes the entry of this.chunkBytes.
NewChunk == [st |-> "fetch", attempt |-> 0, downloaded |-> 0, bytes |-> 0]

\* chunk.end - chunk.start + 1 for chunk i (from 1) of run r
expectedBytes(S, r, i) ==
  LET chunk == splitChunks(S.runs[r].totalSize, DOWNLOAD_THREADS)[i]
  IN  chunk.end - chunk.start + 1

RECURSIVE SumBytes(_)
SumBytes(chunks) ==
  IF chunks = <<>> THEN 0 ELSE SumBytes(Front(chunks)) + Last(chunks).bytes

\* The onProgress callback that startDownload gives the Downloader of run r.
onProgress(S, r, downloaded, total) ==
  IF total > 0
  THEN [S EXCEPT !.heap[S.runs[r].task].progress = RoundPercent(downloaded, total)]
  ELSE S

\* The event that run r gives onProgress when its download has succeeded:
\* of download() after the merge, of downloadSingleStream after the body.
finalEvent(S, r) ==
  LET run == S.runs[r]
  IN  IF run.pc = "merge"
      THEN [downloaded |-> run.totalSize, total |-> run.totalSize, speed |-> "0 B/s"]
      ELSE [downloaded |-> run.downloaded, total |-> run.totalSize, speed |-> "0 B/s"]

\* The interval callback of run r: of download() while the chunks are
\* fetched, of downloadSingleStream while the body is read.
progressInterval(S, r) ==
  LET run == S.runs[r]
  IN  IF run.pc = "chunks"
      THEN onProgress(S, r, SumBytes(run.chunks), run.totalSize)
      ELSE onProgress(S, r, run.downloaded, run.totalSize)

\* downloadChunk of chunk i of run r rejects with err: Promise.all rejects
\* with the first rejection, later ones are ignored.
chunkReject(S, r, i, err) ==
  LET S1 == [S EXCEPT !.runs[r].chunks[i].st = "dead"]
  IN  IF S.runs[r].pc = "chunks" THEN downloadCatch(S1, r, err) ELSE S1

\* chunkFail without the test of line 156: a delay follows every failure.
chunkFailAlwaysDelaying(S, r, i) ==
  IF S.runs[r].aborted THEN chunkReject(S, r, i, "Error")
  ELSE [S EXCEPT !.runs[r].chunks[i].st = "delay"]

\* The catch block of downloadChunk for an error that is no AbortError.
chunkFail(S, r, i) ==
  LET run == S.runs[r]
  IN  IF run.aborted THEN chunkReject(S, r, i, "Error")
      ELSE IF run.chunks[i].attempt < CHUNK_RETRY_COUNT - 1
      THEN [S EXCEPT !.runs[r].chunks[i].st = "delay"]
      ELSE chunkReject(S, r, i, "Error")

\* mergeChunks begins: the destination is opened for writing.
mergeStart(S, r) ==
  LET destPath == S.runs[r].destPath
  IN  IF CanOpen(S, destPath)
      THEN [createWriteStream(S, destPath) EXCEPT !.runs[r].pc = "merge",
                                                  !.runs[r].merged = 0]
      ELSE downloadCatch(S, r, "Error")

\* chunkResolve without Promise.all: the merge begins with the first chunk
\* that returns.
chunkResolveFirstDone(S, r, i) ==
  LET S1 == [S EXCEPT !.runs[r].chunks[i].st = "done"]
  IN  IF S.runs[r].pc = "chunks" THEN mergeStart(S1, r) ELSE S1

\* downloadChunk of chunk i of run r returns; when it is the last one,
\* Promise.all resolves and the merge begins.
chunkResolve(S, r, i) ==
  LET S1 == [S EXCEPT !.runs[r].chunks[i].st = "done"]
      chunks == S1.runs[r].chunks
  IN  IF S.runs[r].pc = "chunks" /\ \A j \in 1..Len(chunks) : chunks[j].st = "done"
      THEN mergeStart(S1, r)
      ELSE S1

\* The retry delay of chunk i of run r is over: the loop of downloadChunk
\* goes round, throws "Aborted" when the Downloader was aborted, and else
\* starts the next request.
chunkRetry(S, r, i) ==
  IF S.runs[r].aborted THEN chunkReject(S, r, i, "Error")
  ELSE [S EXCEPT !.runs[r].chunks[i].st = "fetch",
                 !.runs[r].chunks[i].attempt = @ + 1]

\* The response to the request of chunk i of run r has arrived.
chunkResponse(S, r, i, status) ==
  LET partPath == PartPath(S.runs[r].destPath, i - 1)
  IN  IF status # 206 /\ status # 200 THEN chunkFail(S, r, i)
      ELSE IF ~ CanOpen(S, partPath) THEN chunkFail(S, r, i)
      ELSE [createWriteStream(S, partPath) EXCEPT !.runs[r].chunks[i].st = "stream",
                                                  !.runs[r].chunks[i].downloaded = 0]

\* One read of the body of chunk i of run r gives n bytes.
chunkRead(S, r, i, n) ==
  LET chunkDownloaded == S.runs[r].chunks[i].downloaded + n
  IN  IF chunkDownloaded > expectedBytes(S, r, i) * 2 THEN chunkFail(S, r, i)
      ELSE [S EXCEPT !.runs[r].chunks[i].downloaded = chunkDownloaded,
                     !.runs[r].chunks[i].bytes = chunkDownloaded]

\* The body of chunk i of run r has ended: completely (ok), or with an error
\* of the connection or of the size guard.
chunkStreamEnd(S, r, i, ok) ==
  IF ok THEN chunkResolve(S, r, i) ELSE chunkFail(S, r, i)

\* The part-file of chunk i of run r, whose request was aborted while its
\* body was piped, is closed: downloadChunk rejects with the AbortError.
chunkStreamClosed(S, r, i) == chunkReject(S, r, i, "AbortError")

\* One step of mergeChunks: the next part-file is opened and appended; after
\* the last one the destination is closed, the part-files are removed and
\* download() resolves.
mergeStep(S, r) ==
  LET run == S.runs[r]
  IN  IF run.merged < Len(run.chunks)
      THEN IF PartPath(run.destPath, run.merged) \in S.files
           THEN [S EXCEPT !.runs[r].merged = @ + 1]
           ELSE downloadCatch(S, r, "Error")
      ELSE afterDownload(onProgress(cleanPartFiles(S, r), r,
                                    finalEvent(S, r).downloaded,
                                    finalEvent(S, r).total), r)

\* ------------------------------------------------------------------------
\* ChunkedDownloader: download (probe, size gate, mode) and single stream
\* ------------------------------------------------------------------------
\* probeDone without the size gate of lines 281-285.
probeDoneNoSizeGate(S, r, ok, acceptRanges, length) ==
  LET contentLength == IF ok THEN length ELSE 0
      supportsRange == ok /\ acceptRanges /\ contentLength > 0
  IN  IF ~ supportsRange \/ DOWNLOAD_THREADS <= 1
      THEN [S EXCEPT !.runs[r].pc = "fetch"]
      ELSE [S EXCEPT !.runs[r].pc = "chunks",
                     !.runs[r].totalSize = contentLength,
                     !.runs[r].chunks =
                        [k \in 1..Len(splitChunks(contentLength, DOWNLOAD_THREADS))
                           |-> NewChunk]]

\* probeDone without the try and catch of lines 273-279: a probe that fails
\* makes download() fail.
probeDoneFatal(S, r, ok, acceptRanges, length) ==
  LET supportsRange == acceptRanges /\ length > 0
  IN  IF ~ ok \/ length > MAX_DOWNLOAD_SIZE THEN catchRun(S, r, "Error")
      ELSE IF ~ supportsRange \/ DOWNLOAD_THREADS <= 1
      THEN [S EXCEPT !.runs[r].pc = "fetch"]
      ELSE [S EXCEPT !.runs[r].pc = "chunks",
                     !.runs[r].totalSize = length,
                     !.runs[r].chunks =
                        [k \in 1..Len(splitChunks(length, DOWNLOAD_THREADS))
                           |-> NewChunk]]

\* The HEAD request of run r has ended: ok = FALSE for a network error or a
\* status that is not 2xx (both leave supportsRange false, contentLength 0).
probeDone(S, r, ok, acceptRanges, length) ==
  LET contentLength == IF ok THEN length ELSE 0
      supportsRange == ok /\ acceptRanges /\ contentLength > 0
  IN  IF contentLength > MAX_DOWNLOAD_SIZE THEN catchRun(S, r, "Error")
      ELSE IF ~ supportsRange \/ DOWNLOAD_THREADS <= 1
      THEN [S EXCEPT !.runs[r].pc = "fetch"]
      ELSE [S EXCEPT !.runs[r].pc = "chunks",
                     !.runs[r].totalSize = contentLength,
                     !.runs[r].chunks =
                        [k \in 1..Len(splitChunks(contentLength, DOWNLOAD_THREADS))
                           |-> NewChunk]]

\* The response to the single-stream request of run r has arrived.
singleResponse(S, r, ok, contentLength) ==
  IF ~ ok \/ contentLength > MAX_DOWNLOAD_SIZE THEN catchRun(S, r, "Error")
  ELSE IF ~ CanOpen(S, S.runs[r].destPath) THEN catchRun(S, r, "Error")
  ELSE [createWriteStream(S, S.runs[r].destPath) EXCEPT !.runs[r].pc = "stream",
                                                        !.runs[r].totalSize = contentLength,
                                                        !.runs[r].downloaded = 0]

\* One read of the single-stream body of run r gives n bytes.
singleRead(S, r, n) ==
  IF S.runs[r].downloaded + n > MAX_DOWNLOAD_SIZE THEN catchRun(S, r, "Error")
  ELSE [S EXCEPT !.runs[r].downloaded = @ + n]

\* The single-stream body of run r has ended.
singleStreamEnd(S, r, ok) ==
  IF ok
  THEN afterDownload(onProgress(S, r, finalEvent(S, r).downloaded,
                                finalEvent(S, r).total), r)
  ELSE catchRun(S, r, "Error")

\* The destination of run r, whose single-stream request was aborted while
\* its body was piped, is closed: download() rejects with the AbortError.
singleStreamClosed(S, r) == catchRun(S, r, "AbortError")

\* ------------------------------------------------------------------------
\* inject
\* ------------------------------------------------------------------------
\* readIpaMetadata of run r has ended.  layout: "targets" when the archive
\* names at least one place for a signature blob, "none" when its manifest
\* lists no path, "unreadable" when inject throws.
injectRead(S, r, layout) ==
  LET id == S.runs[r].task
  IN  IF S.runs[r].destPath \notin S.files \/ layout = "unreadable"
      THEN catchRun(S, r, "Error")
      ELSE IF layout = "targets" \/ S.heap[id].iTunesMetadata
      THEN [S EXCEPT !.runs[r].pc = "zip"]
      ELSE completeRun(S, r)

\* The archive tool started by addFilesToZip has ended: on success it has
\* written the archive at ipaPath.
injectZip(S, r, ok) ==
  IF ok /\ CanOpen(S, S.runs[r].destPath)
  THEN completeRun(createWriteStream(S, S.runs[r].destPath), r)
  ELSE catchRun(S, r, "Error")

\* ------------------------------------------------------------------------
\* Download Manager: startDownload, createTask, resumeTask, pauseTask, deleteTask
\* ------------------------------------------------------------------------
\* deleteTask
\* ------------------------------------------------------------------------
\* The loop of deleteTask that removes the empty parent directories.
RECURSIVE removeEmptyParents(_, _)
removeEmptyParents(S, dir) ==
  IF dir # PACKAGES_DIR /\ IsPrefix(PACKAGES_DIR, dir) /\ IsEmptyDir(S, dir)
  THEN removeEmptyParents([S EXCEPT !.dirs = @ \ {dir}], Dirname(dir))
  ELSE S

\* deleteTask(id) when it does not return false.
deleteTask(S, id) ==
  LET S1 == IF MapHas(S.abortControllers, id)
            THEN [controllerAbort(S, S.abortControllers[id])
                    EXCEPT !.abortControllers = MapDelete(@, id)]
            ELSE S
      S2 == IF MapHas(S1.chunkDownloaders, id)
            THEN [downloaderAbort(S1, S1.chunkDownloaders[id])
                    EXCEPT !.chunkDownloaders = MapDelete(@, id)]
            ELSE S1
      filePath == S.heap[id].filePath
      resolved == Resolve(filePath)
      S3 == IF filePath # NoPath /\ WithinPackages(resolved) /\ resolved \in S2.files
            THEN removeEmptyParents([S2 EXCEPT !.files = @ \ {resolved}],
                                    Dirname(resolved))
            ELSE S2
  IN  persistTasks([S3 EXCEPT !.tasks = @ \ {id}])

\* ------------------------------------------------------------------------
\* runTimeCleanup and runSpaceCleanup
\* ------------------------------------------------------------------------
\* FileTasks without the filter on the status.
FileTasksOfAnyStatus(S) ==
  { id \in S.tasks :
      /\ S.heap[id].filePath # NoPath
      /\ existsSync(S, S.heap[id].filePath)
      /\ Resolve(S.heap[id].filePath) \in DOMAIN S.stat }

\* The completed tasks of the map whose file is there and whose fs.statSync
\* does not throw: those the loops of both sweeps look at.
FileTasks(S) ==
  { id \in S.tasks :
      /\ S.heap[id].status = "completed"
      /\ S.heap[id].filePath # NoPath
      /\ existsSync(S, S.heap[id].filePath)
      /\ Resolve(S.heap[id].filePath) \in DOMAIN S.stat }

\* fs.statSync(task.filePath) for a task of FileTasks
statSync(S, id) == S.stat[Resolve(S.heap[id].filePath)]

\* The ids in ascending order of rank; ids of one rank keep the order of the
\* map, which is the order of the ids.
RECURSIVE InOrder(_, _)
InOrder(ids, rank) ==
  IF ids = {} THEN <<>>
  ELSE LET first == CHOOSE id \in ids :
                      \A other \in ids :
                        \/ rank[id] < rank[other]
                        \/ rank[id] = rank[other] /\ id <= other
       IN  <<first>> \o InOrder(ids \ {first}, rank)

\* for (const id of ids) deleteTask(id)
RECURSIVE deleteEach(_, _)
deleteEach(S, ids) ==
  IF ids = <<>> THEN S
  ELSE deleteEach(IF Head(ids) \in S.tasks THEN deleteTask(S, Head(ids)) ELSE S,
                  Tail(ids))

\* runTimeCleanup that takes a file of just the age of the cutoff as expired.
runTimeCleanupInclusive(S) ==
  IF S.config.autoCleanupDays <= 0 THEN S
  ELSE LET cutoff == S.now - S.config.autoCleanupDays
           expiredIds == { id \in FileTasks(S) : statSync(S, id).mtimeMs <= cutoff }
       IN  deleteEach(S, InOrder(expiredIds, [id \in expiredIds |-> 0]))

runTimeCleanup(S) ==
  IF S.config.autoCleanupDays <= 0 THEN S
  ELSE LET cutoff == S.now - S.config.autoCleanupDays
           expiredIds == { id \in FileTasks(S) : statSync(S, id).mtimeMs < cutoff }
       IN  deleteEach(S, InOrder(expiredIds, [id \in expiredIds |-> 0]))

RECURSIVE SumSizes(_, _)
SumSizes(S, ids) ==
  IF ids = {} THEN 0
  ELSE LET id == CHOOSE i \in ids : TRUE
       IN  statSync(S, id).size + SumSizes(S, ids \ {id})

\* The loop of runSpaceCleanup over the sorted fileTasks.
RECURSIVE evict(_, _, _)
evict(S, fileTasks, totalBytes) ==
  IF fileTasks = <<>> THEN S
  ELSE LET ft == Head(fileTasks)
           S1 == IF ft.id \in S.tasks THEN deleteTask(S, ft.id) ELSE S
       IN  IF totalBytes - ft.size <= S.config.autoCleanupMaxMB
           THEN S1
           ELSE evict(S1, Tail(fileTasks), totalBytes - ft.size)

\* runSpaceCleanup whose loop has no break.
runSpaceCleanupWithoutBreak(S) ==
  IF S.config.autoCleanupMaxMB <= 0 THEN S
  ELSE LET ids == FileTasks(S)
       IN  IF SumSizes(S, ids) <= S.config.autoCleanupMaxMB THEN S
           ELSE deleteEach(S, InOrder(ids, [id \in ids |-> statSync(S, id).mtimeMs]))

runSpaceCleanup(S) ==
  IF S.config.autoCleanupMaxMB <= 0 THEN S
  ELSE LET maxBytes == S.config.autoCleanupMaxMB
           ids == FileTasks(S)
           totalBytes == SumSizes(S, ids)
           sorted == InOrder(ids, [id \in ids |-> statSync(S, id).mtimeMs])
           fileTasks == [i \in 1..Len(sorted) |->
                           [id |-> sorted[i], size |-> statSync(S, sorted[i]).size,
                            mtimeMs |-> statSync(S, sorted[i]).mtimeMs]]
       IN  IF totalBytes <= maxBytes THEN S
           ELSE evict(S, fileTasks, totalBytes)

NewRun(id) ==
  [task |-> id, pc |-> "ended", signal |-> FALSE, aborted |-> FALSE,
   timer |-> TRUE, rejected |-> FALSE, destPath |-> NoPath, chunks |-> <<>>,
   merged |-> 0, totalSize |-> 0, downloaded |-> 0]

\* startDownload(task) up to its first await, the HEAD request of download().
startDownload(S, id) ==
  LET r == Len(S.runs) + 1
      task == S.heap[id]
      S0 == runSpaceCleanup(runTimeCleanup(S))
      S1 == [S0 EXCEPT !.runs = Append(@, NewRun(id)),
                       !.abortControllers = MapSet(@, id, r),
                       !.heap[id].status = "downloading",
                       !.heap[id].progress = 0,
                       !.heap[id].error = NoError]
      safeAccountHash == safePathSegment(task.accountHash)
      safeBundleID == safePathSegment(task.bundleID)
      safeVersion == safePathSegment(task.version)
      dir == PACKAGES_DIR \o <<safeAccountHash.val, safeBundleID.val, safeVersion.val>>
      filePath == Append(dir, IpaName(id))
      S2 == [mkdirRecursive(S1, dir) EXCEPT !.heap[id].filePath = filePath,
                                            !.runs[r].destPath = filePath]
  IN  IF ~ (safeAccountHash.ok /\ safeBundleID.ok /\ safeVersion.ok)
      THEN S1  \* safePathSegment throws: the promise of startDownload rejects
      ELSE IF ~ WithinPackages(Resolve(dir))
      THEN [S1 EXCEPT !.heap[id].status = "failed",
                      !.heap[id].error = "Invalid path",
                      !.runs[r].timer = FALSE]
      ELSE IF ~ validateDownloadURL(task.downloadURL)
      THEN catchRun(S2, r, "Error")
      ELSE [S2 EXCEPT !.chunkDownloaders = MapSet(@, id, r),
                      !.runs[r].pc = "probe"]

NewTask(accountHash, bundleID, version, downloadURL, sinfs, iTunesMetadata) ==
  [accountHash |-> accountHash, bundleID |-> bundleID, version |-> version,
   downloadURL |-> downloadURL, sinfs |-> sinfs, iTunesMetadata |-> iTunesMetadata,
   status |-> "pending", progress |-> 0, error |-> NoError, filePath |-> NoPath]

\* createTask whose validation looks at the download URL only.
createTaskAcceptsAnySegment(accountHash, bundleID, version, downloadURL) ==
  validateDownloadURL(downloadURL)

\* TRUE when createTask passes its validation (it throws otherwise).
createTaskAccepts(accountHash, bundleID, version, downloadURL) ==
  /\ validateDownloadURL(downloadURL)
  /\ safePathSegment(accountHash).ok
  /\ safePathSegment(bundleID).ok
  /\ safePathSegment(version).ok

\* uuidv4(): the ids made by createTask are 1, 2, ... in the order of the calls.
FreshId(S) == Cardinality(DOMAIN S.heap \cap TaskIds) + 1

\* createTask that leaves startDownload to a later turn: the task is made and
\* put in the map, and nothing else.
createTaskDeferred(S, accountHash, bundleID, version, downloadURL, sinfs, iTunesMetadata) ==
  [S EXCEPT !.heap = MapSet(@, FreshId(S), NewTask(accountHash, bundleID, version,
                                                   downloadURL, sinfs, iTunesMetadata)),
            !.tasks = @ \cup {FreshId(S)}]

\* createTask after its validation: the task is made, put in the map and
\* startDownload is called (not awaited).
createTask(S, accountHash, bundleID, version, downloadURL, sinfs, iTunesMetadata) ==
  LET id == FreshId(S)
      S1 == [S EXCEPT !.heap = MapSet(@, id, NewTask(accountHash, bundleID, version,
                                                     downloadURL, sinfs, iTunesMetadata)),
                      !.tasks = @ \cup {id}]
  IN  startDownload(S1, id)

\* The body of a request POST /downloads, and the answer of the size
\* pre-flight to it: 400 (no size to be had), 413 (too large), 502 (the
\* probe failed), or 200 when it passes or config.maxDownloadMB is 0.
Request(accountHash, bundleID, version, downloadURL, payload, sizeCheck) ==
  [accountHash |-> accountHash, bundleID |-> bundleID, version |-> version,
   downloadURL |-> downloadURL, sinfs |-> payload.sinfs,
   iTunesMetadata |-> payload.iTunesMetadata, sizeCheck |-> sizeCheck]

\* The status with which the route POST /downloads answers.
createRouteStatus(req) ==
  IF req.accountHash = <<>> THEN 400
  ELSE IF ~ validateDownloadURL(req.downloadURL) THEN 400
  ELSE IF req.sizeCheck # 200 THEN req.sizeCheck
  ELSE IF ~ createTaskAccepts(req.accountHash, req.bundleID, req.version,
                              req.downloadURL) THEN 400
  ELSE 201

\* The state after the route POST /downloads has answered.
createRouteEffect(S, req) ==
  IF createRouteStatus(req) = 201
  THEN createTask(S, req.accountHash, req.bundleID, req.version, req.downloadURL,
                  req.sinfs, req.iTunesMetadata)
  ELSE S

\* pauseTask without line 373: the status is left as it is.
pauseTaskKeepingStatus(S, id) ==
  LET S1 == IF MapHas(S.abortControllers, id)
            THEN [controllerAbort(S, S.abortControllers[id])
                    EXCEPT !.abortControllers = MapDelete(@, id)]
            ELSE S
  IN  IF MapHas(S1.chunkDownloaders, id)
      THEN [downloaderAbort(S1, S1.chunkDownloaders[id])
              EXCEPT !.chunkDownloaders = MapDelete(@, id)]
      ELSE S1

\* pauseTask(id) when it does not return false.
pauseTask(S, id) ==
  LET S1 == IF MapHas(S.abortControllers, id)
            THEN [controllerAbort(S, S.abortControllers[id])
                    EXCEPT !.abortControllers = MapDelete(@, id)]
            ELSE S
      S2 == IF MapHas(S1.chunkDownloaders, id)
            THEN [downloaderAbort(S1, S1.chunkDownloaders[id])
                    EXCEPT !.chunkDownloaders = MapDelete(@, id)]
            ELSE S1
  IN  [S2 EXCEPT !.heap[id].status = "paused"]

\* resumeTask(id) when it does not return false.
resumeTask(S, id) == startDownload(S, id)

\* pauseTask that lets any task of the map be paused, whatever its status.
pauseTaskSucceedsInAnyStatus(S, id) == id \in S.tasks

\* The value that pauseTask(id) returns: false when there is no such task or
\* when its status is not downloading.
pauseTaskSucceeds(S, id) ==
  /\ id \in S.tasks
  /\ S.heap[id].status = "downloading"

\* The value that resumeTask(id) returns.
resumeTaskSucceeds(S, id) ==
  /\ id \in S.tasks
  /\ S.heap[id].status = "paused"

\* The state after a call of pauseTask(id), and of resumeTask(id).
pauseTaskEffect(S, id) == IF pauseTaskSucceeds(S, id) THEN pauseTask(S, id) ELSE S

resumeTaskEffect(S, id) == IF resumeTaskSucceeds(S, id) THEN resumeTask(S, id) ELSE S

\* The status with which the routes POST /downloads/:id/pause and /resume
\* answer a request of the owner of the task.
pauseRouteStatus(S, id) ==
  IF id \notin S.tasks THEN 404
  ELSE IF ~ pauseTaskSucceeds(S, id) THEN 400
  ELSE 200

resumeRouteStatus(S, id) ==
  IF id \notin S.tasks THEN 404
  ELSE IF ~ resumeTaskSucceeds(S, id) THEN 400
  ELSE 200

\* ------------------------------------------------------------------------
\* initOnStartup
\* ------------------------------------------------------------------------
\* An item of tasks.json that has no id.
NoId == 0

\* The task that initOnStartup makes of a snapshot item.
LoadedTask(item) ==
  [accountHash |-> item.accountHash, bundleID |-> item.bundleID,
   version |-> item.version, downloadURL |-> NoURL, sinfs |-> 0,
   iTunesMetadata |-> FALSE, status |-> "completed", progress |-> 100,
   error |-> NoError, filePath |-> item.filePath]

\* initOnStartup that does not look for the file of an item.
AdmittedWithoutFile(disk) ==
  IF disk.snapshot.kind # "array" THEN {}
  ELSE { item \in disk.snapshot.items :
           /\ item.id # NoId
           /\ item.status = "completed"
           /\ item.filePath # NoPath }

\* The items of tasks.json that initOnStartup admits.
Admitted(disk) ==
  IF disk.snapshot.kind # "array" THEN {}
  ELSE { item \in disk.snapshot.items :
           /\ item.id # NoId
           /\ item.status = "completed"
           /\ item.filePath # NoPath
           /\ Resolve(item.filePath) \in disk.files }

\* cleanOrphanedPackages: every file under the packages directory that is no
\* task's filePath is removed, and then every directory left empty.
cleanOrphanedPackages(S) ==
  LET knownPaths == { Resolve(S.heap[id].filePath) :
                        id \in { i \in S.tasks : S.heap[i].filePath # NoPath } }
      kept == { f \in S.files : ~ WithinPackages(f) \/ f \in knownPaths }
  IN  [S EXCEPT !.files = kept,
                !.dirs = { d \in @ : \/ ~ WithinPackages(d)
                                     \/ \E f \in kept : IsPrefix(d, Dirname(f)) }]

\* The state of the process after initOnStartup on a data directory.
initOnStartup(disk) ==
  LET items == Admitted(disk)
      ids == { item.id : item \in items }
      S0 == [heap |-> [id \in ids |-> LoadedTask(CHOOSE item \in items : item.id = id)],
             tasks |-> ids,
             abortControllers |-> EmptyMap,
             chunkDownloaders |-> EmptyMap,
             runs |-> <<>>,
             files |-> disk.files,
             dirs |-> disk.dirs \cup (Prefixes(PACKAGES_DIR) \ {<<>>}),
             snapshot |-> disk.snapshot,
             config |-> disk.config,
             now |-> disk.now,
             stat |-> disk.stat]
  IN  runTimeCleanup(cleanOrphanedPackages(S0))

\* ------------------------------------------------------------------------
\* The data directories the process is started on
\* ------------------------------------------------------------------------
NoSnapshot == [kind |-> "absent", items |-> {}]

\* The id of the task that an earlier process has left in tasks.json.
LoadedId == 7

PackageDir(version) == PACKAGES_DIR \o << <<"a">>, <<"b">>, version >>

\* An item of tasks.json.  What an earlier process wrote holds no download
\* URL, no signature blob and no metadata; a file that was edited may.
Item(id, status, filePath, secrets) ==
  [id |-> id, accountHash |-> <<"a">>, bundleID |-> <<"b">>, version |-> <<"2">>,
   status |-> status, progress |-> 100, filePath |-> filePath,
   downloadURL |-> IF secrets THEN AppleURL ELSE NoURL,
   sinfs |-> IF secrets THEN 1 ELSE 0, iTunesMetadata |-> secrets]

\* Nothing on disk: the first start.
FreshDisk ==
  [snapshot |-> NoSnapshot, files |-> {}, dirs |-> {},
   config |-> DefaultConfig, now |-> 0, stat |-> EmptyMap]

\* An edited snapshot: a completed task whose file is there, one whose file is
\* gone, one that is not completed, one without an id; beside them a file
\* that no task names.
KeptDisk ==
  [snapshot |->
     [kind |-> "array",
      items |-> {Item(LoadedId, "completed", Append(PackageDir(<<"2">>), IpaName(LoadedId)), TRUE),
                 Item(8, "completed", Append(PackageDir(<<"3">>), IpaName(8)), FALSE),
                 Item(9, "failed", Append(PackageDir(<<"2">>), IpaName(9)), FALSE),
                 Item(NoId, "completed", Append(PackageDir(<<"2">>), IpaName(9)), FALSE)}],
   files |-> {Append(PackageDir(<<"2">>), IpaName(LoadedId)),
              Append(PackageDir(<<"2">>), IpaName(9)),
              Append(PackageDir(<<"3">>), <<"x", ".tmp">>)},
   dirs |-> (Prefixes(PackageDir(<<"2">>)) \cup Prefixes(PackageDir(<<"3">>))) \ {<<>>},
   config |-> DefaultConfig, now |-> 0, stat |-> EmptyMap]

\* A snapshot that names a file outside the packages directory.
ForeignPath == Append(DataDir, <<"k", "e", "y">>)

ForeignDisk ==
  [snapshot |-> [kind |-> "array",
                 items |-> {Item(LoadedId, "completed", ForeignPath, FALSE)}],
   files |-> {ForeignPath},
   dirs |-> Prefixes(DataDir) \ {<<>>},
   config |-> DefaultConfig, now |-> 0, stat |-> EmptyMap]

InitialDisks == {FreshDisk, KeptDisk, ForeignDisk}

\* ------------------------------------------------------------------------
\* The requests of the clients and the answers of the origin
\* ------------------------------------------------------------------------
AccountHashes == {<<"a">>}

BundleIDs == {<<"b">>}

Versions == {<<"1", "/">>, <<".", ".">>}

URLs == {AppleURL, NoURL,
         [parsed |-> TRUE, protocol |-> "http:", hostname |-> <<"cdn", "apple", "com">>],
         [parsed |-> TRUE, protocol |-> "https:", hostname |-> <<"cdn", "example", "com">>]}

\* What a request carries for the injector: the number of signature blobs and
\* whether it has metadata.
Payloads == {[sinfs |-> 0, iTunesMetadata |-> TRUE], [sinfs |-> 1, iTunesMetadata |-> FALSE]}

\* The requests POST /downloads: those of every version and payload, and one
\* for each other way of being refused: a field that is missing, a download
\* URL that is not allowed, a size pre-flight that does not pass.
Requests ==
  { Request(<<"a">>, <<"b">>, version, AppleURL, payload, 200) :
      version \in Versions, payload \in Payloads }
  \cup { Request(accountHash, bundleID, <<"1", "/">>, downloadURL,
                 [sinfs |-> 1, iTunesMetadata |-> FALSE], 200) :
           accountHash \in AccountHashes, bundleID \in BundleIDs,
           downloadURL \in URLs \ {AppleURL} }
  \cup { Request(<<>>, <<"b">>, <<"1", "/">>, AppleURL,
                 [sinfs |-> 1, iTunesMetadata |-> FALSE], 200) }
  \cup { Request(<<"a">>, <<"b">>, <<"1", "/">>, AppleURL,
                 [sinfs |-> 1, iTunesMetadata |-> FALSE], sizeCheck) :
           sizeCheck \in {400, 413, 502} }

\* The Content-Length values of the origin: absent (0), acceptable, too large.
ContentLengths == 0..MaxLen \cup {MAX_DOWNLOAD_SIZE + 1}

ContentLengthsDL == 0..MaxLenDL \cup {MAX_DOWNLOAD_SIZE + 1}

\* value.byteLength of one read of a body.
ReadSizes == {1, MAX_DOWNLOAD_SIZE + 1}

Statuses == {206, 200, 500}

Layouts == {"targets", "none", "unreadable"}

RunIds == 1..Len(runs)

ChunkIds(r) == 1..Len(runs[r].chunks)

\* ------------------------------------------------------------------------
\* Actions
\* ------------------------------------------------------------------------
\* What a run holds and will not read again is dropped from the state: all
\* of it when the run has ended and has no request or delay left, and else
\* the counters of the attempts that are over.  The bytes that a finished
\* chunk has written stay until its part-file is merged and removed.
Live(c) == c.st \in {"fetch", "stream", "closing", "delay"}

Settled(run) ==
  IF run.pc = "ended" /\ \A i \in 1..Len(run.chunks) : ~ Live(run.chunks[i])
  THEN [NewRun(run.task) EXCEPT !.timer = run.timer]
  ELSE [run EXCEPT
          !.downloaded = IF run.pc \in {"stream", "closing"} THEN @ ELSE 0,
          !.chunks =
            [i \in 1..Len(run.chunks) |->
               [run.chunks[i] EXCEPT
                  !.attempt = IF Live(run.chunks[i]) THEN @ ELSE 0,
                  !.downloaded = IF \/ run.chunks[i].st = "stream"
                                    \/ /\ run.chunks[i].st = "done"
                                       /\ run.pc \in {"chunks", "merge"}
                                 THEN @ ELSE 0,
                  !.bytes = IF run.pc = "chunks" THEN @ ELSE 0]]]

\* The turn ends: the microtasks run, and the state is the next one.
EndOfTurn(S) ==
  LET S1 == Microtasks(S)
  IN  [S1 EXCEPT !.runs = [r \in 1..Len(S1.runs) |-> Settled(S1.runs[r])]]

Turn(S) == Commit(EndOfTurn(S))

CreateTask ==
  \E req \in Requests :
    /\ createRouteStatus(req) = 201 =>
         Cardinality(DOMAIN heap) < MaxTasks /\ Len(runs) < MaxRuns
    /\ Turn(createRouteEffect(Cur, req))

\* The ids that a request names: those of the tasks there are or were, and
\* one that no task ever had.
CallIds == DOMAIN heap \cup {NoId}

\* A call of pauseTask; the state stays as it is when the call returns false.
PauseTask ==
  \E id \in CallIds : Turn(pauseTaskEffect(Cur, id))

\* A call of resumeTask.
ResumeTask ==
  \E id \in CallIds :
    /\ resumeTaskSucceeds(Cur, id) => Len(runs) < MaxRuns
    /\ Turn(resumeTaskEffect(Cur, id))

DeleteTask ==
  \E id \in tasks : Turn(deleteTask(Cur, id))

\* The timer armed by startDownload fires.
TimeoutFire ==
  \E r \in RunIds :
    /\ runs[r].timer
    /\ Turn(controllerAbort([Cur EXCEPT !.runs[r].timer = FALSE], r))

\* An interval timer of a Downloader fires.
ProgressInterval ==
  \E r \in RunIds :
    /\ runs[r].pc \in {"chunks", "stream", "closing"}
    /\ Turn(progressInterval(Cur, r))

ProbeDone ==
  \E r \in RunIds, ok \in BOOLEAN, acceptRanges \in BOOLEAN, length \in ContentLengths :
    /\ runs[r].pc = "probe"
    /\ Turn(probeDone(Cur, r, ok, acceptRanges, length))

SingleResponse ==
  \E r \in RunIds, ok \in BOOLEAN, contentLength \in ContentLengths :
    /\ runs[r].pc = "fetch"
    /\ Turn(singleResponse(Cur, r, ok, contentLength))

SingleStreamEnd ==
  \E r \in RunIds, ok \in BOOLEAN :
    /\ runs[r].pc = "stream"
    /\ Turn(singleStreamEnd(Cur, r, ok))

ChunkResponse ==
  \E r \in RunIds :
    \E i \in ChunkIds(r), status \in Statuses :
      /\ runs[r].chunks[i].st = "fetch"
      /\ Turn(chunkResponse(Cur, r, i, status))

ChunkStreamEnd ==
  \E r \in RunIds :
    \E i \in ChunkIds(r), ok \in BOOLEAN :
      /\ runs[r].chunks[i].st = "stream"
      /\ Turn(chunkStreamEnd(Cur, r, i, ok))

ChunkStreamClosed ==
  \E r \in RunIds :
    \E i \in ChunkIds(r) :
      /\ runs[r].chunks[i].st = "closing"
      /\ Turn(chunkStreamClosed(Cur, r, i))

SingleStreamClosed ==
  \E r \in RunIds :
    /\ runs[r].pc = "closing"
    /\ Turn(singleStreamClosed(Cur, r))

ChunkRetry ==
  \E r \in RunIds :
    \E i \in ChunkIds(r) :
      /\ runs[r].chunks[i].st = "delay"
      /\ Turn(chunkRetry(Cur, r, i))

MergeStep ==
  \E r \in RunIds :
    /\ runs[r].pc = "merge"
    /\ Turn(mergeStep(Cur, r))

InjectRead ==
  \E r \in RunIds, layout \in Layouts :
    /\ runs[r].pc = "inject"
    /\ Turn(injectRead(Cur, r, layout))

InjectZip ==
  \E r \in RunIds, ok \in BOOLEAN :
    /\ runs[r].pc = "zip"
    /\ Turn(injectZip(Cur, r, ok))

\* A file of a completed task disappears from the disk (the operator removes it).
FileVanish ==
  \E id \in tasks :
    /\ heap[id].status = "completed"
    /\ heap[id].filePath \in files
    /\ files' = files \ {heap[id].filePath}
    /\ UNCHANGED <<heap, tasks, abortControllers, chunkDownloaders, runs, dirs, snapshot,
                 config, now, stat>>

StartOn(disk) ==
  LET S == initOnStartup(disk)
  IN  /\ heap = S.heap
      /\ tasks = S.tasks
      /\ abortControllers = S.abortControllers
      /\ chunkDownloaders = S.chunkDownloaders
      /\ runs = S.runs
      /\ files = S.files
      /\ dirs = S.dirs
      /\ snapshot = S.snapshot
      /\ config = S.config
      /\ now = S.now
      /\ stat = S.stat

Init == \E disk \in InitialDisks : StartOn(disk)

Next ==
  \/ CreateTask
  \/ PauseTask
  \/ ResumeTask
  \/ DeleteTask
  \/ TimeoutFire
  \/ ProgressInterval
  \/ ProbeDone
  \/ SingleResponse
  \/ SingleStreamEnd
  \/ SingleStreamClosed
  \/ ChunkResponse
  \/ ChunkStreamEnd
  \/ ChunkStreamClosed
  \/ ChunkRetry
  \/ MergeStep
  \/ InjectRead
  \/ InjectZip
  \/ FileVanish

\* The Manager: the bodies of the origin arrive in one piece, as their
\* streams end.
Spec == Init /\ [][Next]_vars

\* ------------------------------------------------------------------------
\* One download, followed byte by byte
\* ------------------------------------------------------------------------
CreateTaskDL ==
  \E payload \in Payloads :
    /\ runs = <<>>
    /\ payload.sinfs = 0
    /\ Turn(createTask(Cur, <<"a">>, <<"b">>, <<"1", "/">>, AppleURL, payload.sinfs,
                       payload.iTunesMetadata))

ProbeDoneDL ==
  \E r \in RunIds, ok \in BOOLEAN, acceptRanges \in BOOLEAN, length \in ContentLengthsDL :
    /\ runs[r].pc = "probe"
    /\ Turn(probeDone(Cur, r, ok, acceptRanges, length))

\* A body is no longer than the Content-Length that came with it; one that
\* came with none has any length.
SingleRead ==
  \E r \in RunIds, n \in ReadSizes :
    /\ runs[r].pc = "stream"
    /\ IF runs[r].totalSize > 0
       THEN runs[r].downloaded + n <= runs[r].totalSize
       ELSE runs[r].downloaded + n <= MaxLenDL \/ n > MAX_DOWNLOAD_SIZE
    /\ Turn(singleRead(Cur, r, n))

ChunkRead ==
  \E r \in RunIds :
    \E i \in ChunkIds(r), n \in ReadSizes :
      /\ runs[r].chunks[i].st = "stream"
      /\ Turn(chunkRead(Cur, r, i, n))

InitDL == StartOn(FreshDisk)

NextDL ==
  \/ CreateTaskDL
  \/ PauseTask
  \/ DeleteTask
  \/ TimeoutFire
  \/ ProgressInterval
  \/ ProbeDoneDL
  \/ SingleResponse
  \/ SingleRead
  \/ SingleStreamEnd
  \/ SingleStreamClosed
  \/ ChunkResponse
  \/ ChunkRead
  \/ ChunkStreamEnd
  \/ ChunkStreamClosed
  \/ ChunkRetry
  \/ MergeStep

SpecDL == InitDL /\ [][NextDL]_vars

\* ------------------------------------------------------------------------
\* One call of splitChunks
\* ------------------------------------------------------------------------
\* A Downloader made with `threads` threads for a file of totalSize bytes,
\* before and after download() has called splitChunks; it is the one entry
\* of runs.
SplitCall(totalSize, threads) ==
  [totalSize |-> totalSize, threads |-> threads, called |-> FALSE, chunks |-> <<>>]

InitSplit ==
  \E totalSize \in 1..MaxSplitSize, threads \in 1..MaxThreads :
    /\ runs = <<SplitCall(totalSize, threads)>>
    /\ heap = EmptyMap
    /\ tasks = {}
    /\ abortControllers = EmptyMap
    /\ chunkDownloaders = EmptyMap
    /\ files = {}
    /\ dirs = {}
    /\ snapshot = NoSnapshot
    /\ config = DefaultConfig
    /\ now = 0
    /\ stat = EmptyMap

SplitChunks ==
  /\ ~ runs[1].called
  /\ runs' = <<[runs[1] EXCEPT !.called = TRUE,
                               !.chunks = splitChunks(runs[1].totalSize, runs[1].threads)]>>
  /\ UNCHANGED <<heap, tasks, abortControllers, chunkDownloaders, files, dirs, snapshot,
               config, now, stat>>

NextSplit == SplitChunks

SpecSplit == InitSplit /\ [][NextSplit]_vars

\* ------------------------------------------------------------------------
\* The sweeps, switched on
\* ------------------------------------------------------------------------
\* The age in days of the oldest file at the start, and the midnights that
\* pass after it.
MaxAge == 2

MaxTicks == 1

\* The data directories: tasks.json has three completed tasks, each with its
\* file, of a size of 1 or 2 MB and written 0 to MaxAge days before the
\* start; either sweep is on or off, the age limit is one day, the size
\* budget 3 MB.
CleanupDisks ==
  LET ids == {LoadedId, 8, 9}
      path(id) == Append(PackageDir(<<"2">>), IpaName(id))
  IN  { [snapshot |-> [kind |-> "array",
                       items |-> { Item(id, "completed", path(id), FALSE) : id \in ids }],
         files |-> { path(id) : id \in ids },
         dirs |-> Prefixes(PackageDir(<<"2">>)) \ {<<>>},
         config |-> [autoCleanupDays |-> days, autoCleanupMaxMB |-> maxMB],
         now |-> MaxAge,
         stat |-> [f \in { path(id) : id \in ids } |->
                     LET id == CHOOSE i \in ids : path(i) = f
                     IN  [size |-> size[id], mtimeMs |-> mtimeMs[id]]]] :
        size \in [ids -> {1, 2}], mtimeMs \in [ids -> 0..MaxAge],
        days \in {0, 1}, maxMB \in {0, 3} }

InitCleanup == \E disk \in CleanupDisks : StartOn(disk)

\* tick() of scheduleDailyCleanup: it is midnight, and runTimeCleanup runs.
DailyTick ==
  /\ now < MaxAge + MaxTicks
  /\ Turn(runTimeCleanup([Cur EXCEPT !.now = @ + 1]))

\* A request POST /downloads that is accepted: its run starts with the sweeps.
CreateTaskCleanup ==
  \E req \in Requests :
    /\ runs = <<>>
    /\ createRouteStatus(req) = 201
    /\ Turn(createRouteEffect(Cur, req))

NextCleanup ==
  \/ DailyTick
  \/ CreateTaskCleanup
  \/ FileVanish

SpecCleanup == InitCleanup /\ [][NextCleanup]_vars

\* ------------------------------------------------------------------------
\* compareVersions and isNewerVersion
\* ------------------------------------------------------------------------
\* A version string is held as what split('.') makes of it: the sequence of
\* its segments, each the sequence of its characters.
MaxSegments == 3

\* The versions given to compareVersions: up to MaxSegments segments, with
\* and without a leading zero, of one digit and of two.
VersionStrings ==
  UNION { [1..n -> {<<"0">>, <<"2">>, <<"1", "0">>, <<"0", "1">>}] : n \in 1..MaxSegments }

DigitValue(c) == CASE c = "0" -> 0 [] c = "1" -> 1 [] c = "2" -> 2

\* parseInt(s, 10) || 0 on a segment of digits: NaN, of the empty segment,
\* becomes 0.
RECURSIVE parseIntOrZero(_)
parseIntOrZero(s) ==
  IF s = <<>> THEN 0
  ELSE 10 * parseIntOrZero(Front(s)) + DigitValue(Last(s))

\* parts[i] ?? 0
PartOrZero(parts, i) == IF i \in DOMAIN parts THEN parts[i] ELSE 0

\* compareVersions that looks at the segments both versions have.
compareVersionsUnpadded(a, b) ==
  LET partsA == [i \in DOMAIN a |-> parseIntOrZero(a[i])]
      partsB == [i \in DOMAIN b |-> parseIntOrZero(b[i])]
      differ == { i \in 1..Min(Len(partsA), Len(partsB)) : partsA[i] # partsB[i] }
  IN  IF differ = {} THEN 0
      ELSE LET i == CHOOSE k \in differ : \A m \in differ : k <= m
           IN  partsA[i] - partsB[i]

compareVersions(a, b) ==
  LET partsA == [i \in DOMAIN a |-> parseIntOrZero(a[i])]
      partsB == [i \in DOMAIN b |-> parseIntOrZero(b[i])]
      len == IF Len(partsA) >= Len(partsB) THEN Len(partsA) ELSE Len(partsB)
      differ == { i \in 1..len : PartOrZero(partsA, i) - PartOrZero(partsB, i) # 0 }
  IN  IF differ = {} THEN 0
      ELSE LET i == CHOOSE k \in differ : \A m \in differ : k <= m
           IN  PartOrZero(partsA, i) - PartOrZero(partsB, i)

\* isNewerVersion that takes an equal version for a newer one.
isNewerVersionOrEqual(latest, current) == compareVersions(latest, current) >= 0

isNewerVersion(latest, current) == compareVersions(latest, current) > 0

\* ------------------------------------------------------------------------
\* inject: readIpaMetadata, the choice of the targets, addFilesToZip
\* ------------------------------------------------------------------------
\* An archive is held as what openZip makes of the file: opens = FALSE when
\* it throws, else the entries in their order.  The filename of an entry is
\* the sequence of its components, a component the sequence of its parts
\* ("X.app" is <<"X", ".app">>); plist is what parsePlistBuffer makes of the
\* content: parsed = FALSE for null, else the two fields that are read, each
\* with its type (absent, array, string, number) and its value.
NoPlist ==
  [parsed |-> FALSE, SinfPaths |-> [type |-> "absent", value |-> <<>>],
   CFBundleExecutable |-> [type |-> "absent", value |-> <<>>]]

\* filename.includes(".app/Info.plist") && !filename.includes("/Watch/")
IsInfoPlist(filename) ==
  /\ \E i \in 1..(Len(filename) - 1) :
       /\ filename[i] # <<>> /\ Last(filename[i]) = ".app"
       /\ filename[i + 1] # <<>> /\ Head(filename[i + 1]) = "Info.plist"
  /\ ~ \E i \in 2..(Len(filename) - 1) : filename[i] = <<"Watch">>

\* filename.endsWith(".app/SC_Info/Manifest.plist")
IsManifest(filename) ==
  /\ Len(filename) >= 3
  /\ filename[Len(filename)] = <<"Manifest.plist">>
  /\ filename[Len(filename) - 1] = <<"SC_Info">>
  /\ filename[Len(filename) - 2] # <<>>
  /\ Last(filename[Len(filename) - 2]) = ".app"

\* The first component of the filename that ends with ".app", less the suffix.
BundleNameOf(filename) ==
  LET apps == { i \in 1..Len(filename) : filename[i] # <<>> /\ Last(filename[i]) = ".app" }
  IN  Front(filename[CHOOSE i \in apps : \A j \in apps : i <= j])

\* The first entry of the archive that has the property, or 0.
FirstEntry(archive, Has(_)) ==
  LET found == { i \in 1..Len(archive.entries) : Has(archive.entries[i]) }
  IN  IF found = {} THEN 0 ELSE CHOOSE i \in found : \A j \in found : i <= j

\* readIpaMetadata(ipaPath): error is the message it throws, if it does.
readIpaMetadata(archive) ==
  LET named(entry) == IsInfoPlist(entry.filename) /\ BundleNameOf(entry.filename) # <<>>
      isManifest(entry) == IsManifest(entry.filename)
      isInfo(entry) == IsInfoPlist(entry.filename)
      b == FirstEntry(archive, named)
      m == FirstEntry(archive, isManifest)
      i == FirstEntry(archive, isInfo)
      manifestPlist == IF m = 0 THEN NoPlist ELSE archive.entries[m].plist
      infoPlist == IF i = 0 THEN NoPlist ELSE archive.entries[i].plist
      Meta(error, bundleName) ==
        [error |-> error, bundleName |-> bundleName,
         manifest |-> [present |-> /\ manifestPlist.parsed
                                   /\ manifestPlist.SinfPaths.type = "array",
                       sinfPaths |-> manifestPlist.SinfPaths.value],
         info |-> [present |-> /\ infoPlist.parsed
                               /\ infoPlist.CFBundleExecutable.type = "string",
                   bundleExecutable |-> infoPlist.CFBundleExecutable.value]]
  IN  IF ~ archive.opens THEN Meta("openZip failed", <<>>)
      ELSE IF b = 0 THEN Meta("Could not read bundle name", <<>>)
      ELSE Meta(NoError, BundleNameOf(archive.entries[b].filename))

\* Buffer.from(sinf, "base64") on the two blobs of the model.
base64Decode(sinf) == CASE sinf = "QQ==" -> "A" [] sinf = "Qg==" -> "B"

\* `Payload/${bundleName}.app/${rest}`, rest a string with its slashes.
PayloadPath(bundleName, rest) ==
  << <<"Payload">>, Append(bundleName, ".app") >> \o rest

\* `SC_Info/${bundleExecutable}.sinf`
ScInfoPath(bundleExecutable) ==
  << <<"SC_Info">> >> \o Front(bundleExecutable)
  \o << Append(Last(bundleExecutable), ".sinf") >>

\* sinfTargets that looks at the info plist before the manifest.
sinfTargetsInfoFirst(meta, sinfs) ==
  IF meta.info.present
  THEN [error |-> NoError,
        files |-> IF Len(sinfs) > 0
                  THEN << [entryPath |-> PayloadPath(meta.bundleName,
                                                     ScInfoPath(meta.info.bundleExecutable)),
                           data |-> base64Decode(sinfs[1].sinf)] >>
                  ELSE <<>>]
  ELSE IF meta.manifest.present
  THEN [error |-> NoError,
        files |-> [i \in 1..Min(Len(meta.manifest.sinfPaths), Len(sinfs)) |->
                     [entryPath |-> PayloadPath(meta.bundleName, meta.manifest.sinfPaths[i]),
                      data |-> base64Decode(sinfs[i].sinf)]]]
  ELSE [error |-> "Could not read manifest or info plist", files |-> <<>>]

\* Lines 559-579 of inject: the files that carry the signature blobs.
sinfTargets(meta, sinfs) ==
  IF meta.manifest.present
  THEN [error |-> NoError,
        files |-> [i \in 1..Min(Len(meta.manifest.sinfPaths), Len(sinfs)) |->
                     [entryPath |-> PayloadPath(meta.bundleName, meta.manifest.sinfPaths[i]),
                      data |-> base64Decode(sinfs[i].sinf)]]]
  ELSE IF meta.info.present
  THEN [error |-> NoError,
        files |-> IF Len(sinfs) > 0
                  THEN << [entryPath |-> PayloadPath(meta.bundleName,
                                                     ScInfoPath(meta.info.bundleExecutable)),
                           data |-> base64Decode(sinfs[1].sinf)] >>
                  ELSE <<>>]
  ELSE [error |-> "Could not read manifest or info plist", files |-> <<>>]

\* The directory that mkdtemp makes, resolved.
TmpDir == << <<"tmp">>, <<"sinf-">> >>

\* The loop of addFilesToZip: every file is put under the staging directory,
\* whose state is st, until one cannot be.
RECURSIVE stage(_, _)
stage(entryFiles, st) ==
  IF entryFiles = <<>> THEN st
  ELSE LET file == Head(entryFiles)
           fullPath == Resolve(TmpDir \o file.entryPath)
       IN  IF ~ (Len(fullPath) > Len(TmpDir) /\ IsPrefix(TmpDir, fullPath))
           THEN [st EXCEPT !.error = "Path traversal detected"]
           ELSE IF \/ Prefixes(Dirname(fullPath)) \cap st.files # {}
                   \/ fullPath \in st.dirs
           THEN [st EXCEPT !.error = "mkdir or writeFile failed"]
           ELSE stage(Tail(entryFiles),
                      [st EXCEPT !.dirs = @ \cup { d \in Prefixes(Dirname(fullPath)) :
                                                     IsPrefix(TmpDir, d) },
                                 !.files = @ \cup {fullPath},
                                 !.relativePaths = Append(@, file.entryPath)])

\* addFilesToZip whose loop has no guard against a path that leaves the
\* staging directory.
addFilesToZipUnguarded(entryFiles, zipOk) ==
  LET st == [dirs |-> {TmpDir}, files |-> {}, error |-> NoError,
             relativePaths |-> [i \in 1..Len(entryFiles) |-> entryFiles[i].entryPath]]
  IN  [error |-> IF zipOk THEN NoError ELSE "zip failed",
       zip |-> TRUE,
       added |-> IF zipOk THEN entryFiles ELSE <<>>,
       staged |-> st.relativePaths,
       tmp |-> { p \in st.dirs \cup st.files : ~ IsPrefix(TmpDir, p) }]

\* addFilesToZip(ipaPath, files); zipOk says how the archive tool ends.  Of
\* the result, zip tells whether the tool was started, added what it has put
\* in the archive, tmp what is left of the staging directory at the exit.
addFilesToZip(entryFiles, zipOk) ==
  LET st == stage(entryFiles, [dirs |-> {TmpDir}, files |-> {}, relativePaths |-> <<>>,
                               error |-> NoError])
      zip == st.error = NoError
  IN  [error |-> IF ~ zip THEN st.error ELSE IF zipOk THEN NoError ELSE "zip failed",
       zip |-> zip,
       added |-> IF zip /\ zipOk THEN entryFiles ELSE <<>>,
       staged |-> st.relativePaths,
       tmp |-> { p \in st.dirs \cup st.files : ~ IsPrefix(TmpDir, p) }]

\* inject(sinfs, ipaPath, iTunesMetadata).  The metadata is given or not, and
\* parses as a property list or not.
inject(sinfs, archive, iTunesMetadata, zipOk) ==
  LET meta == readIpaMetadata(archive)
      targets == sinfTargets(meta, sinfs)
      metadata == IF iTunesMetadata.given
                  THEN << [entryPath |-> << <<"iTunesMetadata.plist">> >>,
                           data |-> IF iTunesMetadata.xml THEN "bplist" ELSE "raw"] >>
                  ELSE <<>>
      filesToInject == targets.files \o metadata
      Thrown(error) == [error |-> error, filesToInject |-> <<>>, zip |-> FALSE,
                        added |-> <<>>, staged |-> <<>>, tmp |-> {}]
  IN  IF meta.error # NoError THEN Thrown(meta.error)
      ELSE IF targets.error # NoError THEN Thrown(targets.error)
      ELSE IF filesToInject = <<>> THEN Thrown(NoError)
      ELSE [filesToInject |-> filesToInject] @@ addFilesToZip(filesToInject, zipOk)

\* ------------------------------------------------------------------------
\* One call of a function that has no state
\* ------------------------------------------------------------------------
\* The call is the one entry of runs: the function, its arguments, and what
\* it returned once it has.
Call(fn, args) == [fn |-> fn, args |-> args, called |-> FALSE, result |-> FALSE]

MaxSegmentLen == 3

MaxLabels == 4

MaxEntries == 2

\* The data directories given to initOnStartup: those above, and two whose
\* tasks.json does not parse, or holds no array.
StartupDisks ==
  InitialDisks \cup CleanupDisks
  \cup { [KeptDisk EXCEPT !.snapshot.kind = kind] : kind \in {"corrupt", "object"} }

\* The calls: compareVersions and isNewerVersion on every two versions,
\* validateDownloadURL on what new URL(url) makes of a URL (nothing, or a
\* protocol and a hostname of up to MaxLabels labels, with a bracket before
\* it or without), safePathSegment on every string of up to MaxSegmentLen
\* characters, of the class [a-zA-Z0-9._-] and outside it, inject on every
\* archive of up to MaxEntries entries (an Info.plist, one of a watch bundle,
\* a Manifest.plist, each with a content that parses or not, with the field
\* or without, of the right type or not, with paths that stay in the bundle
\* or leave it), with no, one or two signature blobs, with metadata or
\* without, and an archive tool that ends well or not.
Calls ==
  LET app == <<"X", ".app">>
      filenames == { << <<"Payload">>, app, <<"Info.plist">> >>,
                     << <<"Payload">>, app, <<"Watch">>, <<"W", ".app">>, <<"Info.plist">> >>,
                     << <<"Payload">>, app, <<"SC_Info">>, <<"Manifest.plist">> >> }
      inside == << <<"SC_Info">>, <<"X", ".sinf">> >>
      outside == << <<".", ".">>, <<".", ".">>, <<".", ".">>, <<"x">> >>
      root == << <<".", ".">>, <<".", ".">> >>
      Field(type, value) == [type |-> type, value |-> value]
      plists == {NoPlist}
                \cup { [NoPlist EXCEPT !.parsed = TRUE, !.SinfPaths = field] :
                         field \in { Field("array", <<>>), Field("array", <<inside>>),
                                     Field("array", <<inside, outside>>),
                                     Field("array", <<root>>), Field("string", inside) } }
                \cup { [NoPlist EXCEPT !.parsed = TRUE, !.CFBundleExecutable = field] :
                         field \in { Field("string", << <<"X">> >>), Field("string", outside),
                                     Field("number", <<>>) } }
      entries == { [filename |-> filename, plist |-> plist] :
                     filename \in filenames, plist \in plists }
      archives == { [opens |-> FALSE, entries |-> <<>>] }
                  \cup { [opens |-> TRUE, entries |-> e] :
                           e \in UNION { [1..n -> entries] : n \in 0..MaxEntries } }
      blobs == << [id |-> 0, sinf |-> "QQ=="], [id |-> 1, sinf |-> "Qg=="] >>
      labels == UNION { [1..n -> {"apple", "APPLE", "com", "cdn", "1"}] : n \in 1..MaxLabels }
      hostnames == labels \cup { <<"[">> \o h : h \in { p \in labels : Len(p) = 2 } }
      urls == {NoURL} \cup { [parsed |-> TRUE, protocol |-> protocol, hostname |-> hostname] :
                                protocol \in {"https:", "http:"}, hostname \in hostnames }
      values == UNION { [1..n -> {"a", "1", ".", "_", "-", "/", "+"}] : n \in 0..MaxSegmentLen }
  IN  { Call(fn, <<a, b>>) : fn \in {"compareVersions", "isNewerVersion"},
                             a \in VersionStrings, b \in VersionStrings }
      \cup { Call("validateDownloadURL", <<url>>) : url \in urls }
      \cup { Call("safePathSegment", <<value>>) : value \in values }
      \cup { Call("initOnStartup", <<disk>>) : disk \in StartupDisks }
      \cup { Call("inject", <<SubSeq(blobs, 1, n), archive, iTunesMetadata, zipOk>>) :
               n \in 0..2, archive \in archives, zipOk \in BOOLEAN,
               iTunesMetadata \in { [given |-> FALSE, xml |-> FALSE],
                                    [given |-> TRUE, xml |-> FALSE],
                                    [given |-> TRUE, xml |-> TRUE] } }

InitCall ==
  /\ runs \in { <<call>> : call \in Calls }
  /\ heap = EmptyMap
  /\ tasks = {}
  /\ abortControllers = EmptyMap
  /\ chunkDownloaders = EmptyMap
  /\ files = {}
  /\ dirs = {}
  /\ snapshot = NoSnapshot
  /\ config = DefaultConfig
  /\ now = 0
  /\ stat = EmptyMap

Return(result) ==
  /\ runs' = <<[runs[1] EXCEPT !.called = TRUE, !.result = result]>>
  /\ UNCHANGED <<heap, tasks, abortControllers, chunkDownloaders, files, dirs, snapshot,
               config, now, stat>>

CompareVersions ==
  /\ runs[1].fn = "compareVersions" /\ ~ runs[1].called
  /\ Return(compareVersions(runs[1].args[1], runs[1].args[2]))

IsNewerVersion ==
  /\ runs[1].fn = "isNewerVersion" /\ ~ runs[1].called
  /\ Return(isNewerVersion(runs[1].args[1], runs[1].args[2]))

ValidateDownloadURL ==
  /\ runs[1].fn = "validateDownloadURL" /\ ~ runs[1].called
  /\ Return(validateDownloadURL(runs[1].args[1]))

SafePathSegment ==
  /\ runs[1].fn = "safePathSegment" /\ ~ runs[1].called
  /\ Return(safePathSegment(runs[1].args[1]))

\* The process starts on a data directory; the result is its state.
InitOnStartup ==
  /\ runs[1].fn = "initOnStartup" /\ ~ runs[1].called
  /\ Return(initOnStartup(runs[1].args[1]))

\* inject is called on an archive.
Inject ==
  /\ runs[1].fn = "inject" /\ ~ runs[1].called
  /\ Return(inject(runs[1].args[1], runs[1].args[2], runs[1].args[3], runs[1].args[4]))

NextCall ==
  \/ Inject
  \/ InitOnStartup
  \/ CompareVersions
  \/ IsNewerVersion
  \/ ValidateDownloadURL
  \/ SafePathSegment

SpecCall == InitCall /\ [][NextCall]_vars

\* ------------------------------------------------------------------------
\* Properties
\* ------------------------------------------------------------------------
\* C1: once pauseTask has put a task in status paused, no step of the run it
\* cancelled changes the status: it stays paused for as long as the task is
\* in the map, until resumeTask starts a new run (status downloading).
PausedStaysPaused ==
  [][\A id \in tasks \cap tasks' :
       heap[id].status = "paused" =>
         \/ heap'[id].status = "paused"
         \/ heap'[id].status = "downloading" /\ Len(runs') = Len(runs) + 1]_vars

\* C2: the status of a task that is completed or failed does not change for
\* as long as the task is in the map.
TerminalStatusStays ==
  [][\A id \in tasks \cap tasks' :
       heap[id].status \in {"completed", "failed"} =>
         heap'[id].status = heap[id].status]_vars

StatusEdges ==
  {<<"pending", "downloading">>, <<"downloading", "injecting">>,
   <<"downloading", "paused">>, <<"downloading", "failed">>,
   <<"downloading", "completed">>, <<"injecting", "completed">>,
   <<"paused", "downloading">>}

\* C2 fails: a task is completed and still carries the error of the failure
\* that came before.
CompletedAfterFailed ==
  \E id \in tasks : heap[id].status = "completed" /\ heap[id].error = "Download failed"

\* C3: every change of the status of a task is one of the edges of
\* StatusEdges.
OnlyStatusEdges ==
  [][\A id \in DOMAIN heap :
       heap'[id].status # heap[id].status =>
         <<heap[id].status, heap'[id].status>> \in StatusEdges]_vars

\* A task record, or an item of the snapshot, that holds no secret.
Scrubbed(t) == t.downloadURL = NoURL /\ t.sinfs = 0 /\ t.iTunesMetadata = FALSE

\* C4: a task whose status is completed holds no download URL, no signature
\* blob and no metadata (the tasks loaded at startup are completed), and so
\* does every item of a snapshot that is written.
CompletedHoldsNoSecret ==
  /\ [](\A id \in DOMAIN heap : heap[id].status = "completed" => Scrubbed(heap[id]))
  /\ [][snapshot' # snapshot => \A item \in snapshot'.items : Scrubbed(item)]_vars

\* C4 happens: beside a task loaded from an edited snapshot, a task that was
\* created with secrets has completed and the snapshot written holds both.
CompletedAndPersisted ==
  \E id \in tasks \cap TaskIds :
    /\ heap[id].status = "completed"
    /\ LoadedId \in tasks
    /\ WithinPackages(Resolve(heap[LoadedId].filePath))
    /\ { item.id : item \in snapshot.items } = {id, LoadedId}

\* C5: a task of the map whose status is downloading has a controller
\* registered under its id, made by a run of this task; the Downloader
\* registered under its id, if any, was made by a run of this task.
DownloadingHasOneController ==
  \A id \in tasks :
    heap[id].status = "downloading" =>
      /\ MapHas(abortControllers, id)
      /\ abortControllers[id] \in RunIds
      /\ runs[abortControllers[id]].task = id
      /\ MapHas(chunkDownloaders, id) =>
           /\ chunkDownloaders[id] \in RunIds
           /\ runs[chunkDownloaders[id]].task = id

\* C5 happens: a task is downloading in its second run while its first run,
\* cancelled by pauseTask, has a chunk in its retry delay.
ResumedWhileOldRunLives ==
  \E id \in tasks :
    /\ heap[id].status = "downloading"
    /\ MapHas(abortControllers, id) /\ abortControllers[id] = 2
    /\ MapHas(chunkDownloaders, id) /\ chunkDownloaders[id] = 2
    /\ runs[1].task = id
    /\ \E i \in ChunkIds(1) : runs[1].chunks[i].st = "delay"

\* The tasks that deleteTask has removed from the map.
Deleted == DOMAIN heap \ tasks

\* C6: a task that deleteTask has removed is in no snapshot and its file is
\* not on disk, in every later state; the packages directory is there, and
\* no directory that holds a file or a directory has been removed.
DeletedStaysGone ==
  /\ \A id \in Deleted :
       /\ \A item \in snapshot.items : item.id # id
       /\ heap[id].filePath # NoPath => Resolve(heap[id].filePath) \notin files
  /\ PACKAGES_DIR \in dirs
  /\ \A f \in files : Dirname(f) \in dirs
  /\ \A d \in dirs : Len(d) > 1 => Dirname(d) \in dirs

\* C6 fails: the file of a deleted task, a path inside the packages
\* directory, is on disk again.
DeletedFileRecreated ==
  \E id \in Deleted :
    /\ heap[id].filePath # NoPath
    /\ WithinPackages(Resolve(heap[id].filePath))
    /\ Resolve(heap[id].filePath) \in files

\* C7: a snapshot that is written holds exactly the tasks of the map that
\* are completed and whose file is on disk when it is written.
SnapshotIsCompletedOnDisk ==
  [][snapshot' # snapshot =>
       { item.id : item \in snapshot'.items } =
         { id \in tasks' : /\ heap'[id].status = "completed"
                           /\ heap'[id].filePath # NoPath
                           /\ Resolve(heap'[id].filePath) \in files' }]_vars

\* C8: the filePath of a task, when set, resolves to a path inside the
\* packages directory; a task that failed with 'Invalid path' has none.
FilePathInsidePackages ==
  \A id \in DOMAIN heap :
    /\ heap[id].filePath # NoPath => WithinPackages(Resolve(heap[id].filePath))
    /\ heap[id].error = "Invalid path" =>
         heap[id].status = "failed" /\ heap[id].filePath = NoPath

\* C9: the progress of every task is an integer from 0 to 100.
ProgressIsPercent ==
  \A id \in DOMAIN heap : heap[id].progress \in 0..100

\* C9 fails: the origin has answered both range requests of a file of two
\* bytes with the whole file, and the task's progress is 200.
ProgressTwoHundred ==
  \E r \in RunIds :
    /\ runs[r].pc = "chunks"
    /\ runs[r].totalSize = 2
    /\ Len(runs[r].chunks) = 2
    /\ \A i \in ChunkIds(r) : runs[r].chunks[i].bytes = 2
    /\ heap[runs[r].task].progress = 200

\* The task id has been paused and resumed: it has had two runs.
Resumed(id) ==
  \E r1 \in RunIds, r2 \in RunIds : r1 < r2 /\ runs[r1].task = id /\ runs[r2].task = id

\* A step in which the origin answers a request with success, or in which no
\* answer of the origin, no call of the Manager and no timeout takes part.
QuietStep ==
  \/ \E r \in RunIds, acceptRanges \in BOOLEAN, length \in 0..MaxLen :
       runs[r].pc = "probe" /\ Turn(probeDone(Cur, r, TRUE, acceptRanges, length))
  \/ \E r \in RunIds, contentLength \in 0..MaxLen :
       runs[r].pc = "fetch" /\ Turn(singleResponse(Cur, r, TRUE, contentLength))
  \/ \E r \in RunIds : runs[r].pc = "stream" /\ Turn(singleStreamEnd(Cur, r, TRUE))
  \/ \E r \in RunIds : \E i \in ChunkIds(r), status \in {206, 200} :
       runs[r].chunks[i].st = "fetch" /\ Turn(chunkResponse(Cur, r, i, status))
  \/ \E r \in RunIds : \E i \in ChunkIds(r) :
       runs[r].chunks[i].st = "stream" /\ Turn(chunkStreamEnd(Cur, r, i, TRUE))
  \/ \E r \in RunIds, layout \in {"targets", "none"} :
       runs[r].pc = "inject" /\ Turn(injectRead(Cur, r, layout))
  \/ \E r \in RunIds : runs[r].pc = "zip" /\ Turn(injectZip(Cur, r, TRUE))
  \/ ChunkStreamClosed
  \/ SingleStreamClosed
  \/ ChunkRetry
  \/ MergeStep
  \/ ProgressInterval

\* C10: after a task has been paused and resumed, a step in which the origin
\* answers with success, and that is no pause, delete or timeout, does not
\* make the task failed (the task goes on to completed without passing
\* through failed).
ResumedNeverFails ==
  [][\A id \in tasks :
       Resumed(id) /\ heap[id].status # "failed" /\ QuietStep =>
         heap'[id].status # "failed"]_vars

\* C10 fails: a resumed task is failed with 'Download failed' while its
\* second run still waits for the first answer of the origin.
ResumedFailedBeforeAnyAnswer ==
  \E id \in tasks :
    /\ Resumed(id)
    /\ heap[id].status = "failed"
    /\ heap[id].error = "Download failed"
    /\ runs[2].pc = "probe" /\ runs[2].timer /\ ~ runs[2].signal

\* The files that a run of task id writes: the destination and its part-files.
DownloadFiles(id) ==
  { f \in files : /\ heap[id].filePath # NoPath
                  /\ f = heap[id].filePath \/ IsPartOf(heap[id].filePath, f) }

\* C11: when a run has ended and has left its task failed or paused, neither
\* the destination file of the task nor a part-file of it is on disk, in this
\* state and in every later one (the tasks here carry no signature blob, so a
\* failure is a failure of the download).
NoPartialFileAfterRun ==
  \A r \in RunIds :
    /\ runs[r].pc = "ended"
    /\ heap[runs[r].task].status \in {"failed", "paused"}
    => DownloadFiles(runs[r].task) = {}

\* C11 fails: the run has ended with the task failed, and a chunk of the
\* run that was answered afterwards is writing its part-file.
LeftoverChunkWritesPartFile ==
  \E r \in RunIds :
    /\ runs[r].pc = "ended"
    /\ heap[runs[r].task].status = "failed"
    /\ \E i \in ChunkIds(r) :
         /\ runs[r].chunks[i].st = "stream"
         /\ PartPath(heap[runs[r].task].filePath, i - 1) \in files

\* C12: a task that holds signature blobs becomes completed only from
\* injecting, in a step that leaves its file on disk, and becomes injecting
\* only from downloading; a task that holds none becomes completed only from
\* downloading and never becomes injecting; a snapshot that is written lists
\* a task only when it is completed.
CompletedOnlyThroughInject ==
  [][\A id \in tasks \cap tasks' :
       /\ heap'[id].status = "injecting" /\ heap[id].status # "injecting" =>
            heap[id].status = "downloading" /\ heap[id].sinfs > 0
       /\ heap'[id].status = "completed" /\ heap[id].status # "completed" =>
            IF heap[id].sinfs > 0
            THEN heap[id].status = "injecting" /\ heap'[id].filePath \in files'
            ELSE heap[id].status = "downloading"
       /\ snapshot' # snapshot /\ (\E item \in snapshot'.items : item.id = id) =>
            heap'[id].status = "completed"]_vars

\* C12 fails: inject works on the file of a task while a later run of the
\* same task has not finished its download to that file.
InjectingWhileDownloading ==
  \E r1 \in RunIds, r2 \in RunIds :
    /\ r1 < r2
    /\ runs[r1].task = runs[r2].task
    /\ runs[r1].task \in tasks
    /\ heap[runs[r1].task].status = "injecting"
    /\ heap[runs[r1].task].sinfs > 0
    /\ runs[r1].pc \in {"inject", "zip"}
    /\ runs[r2].pc \in {"probe", "fetch", "stream", "chunks", "merge"}

\* Run r has not been cancelled: neither its signal nor its Downloader is
\* aborted.
Uncancelled(r) == ~ runs[r].signal /\ ~ runs[r].aborted

\* Chunk i of run r is in an attempt: its request or its body is in flight.
InAttempt(r, i) == runs[r].chunks[i].st \in {"fetch", "stream"}

\* Chunk i of run r has left downloadChunk with an error in this step.
ChunkGaveUp(r, i) ==
  \/ runs'[r].chunks = <<>>
  \/ runs'[r].chunks[i].st = "dead"

\* C13: the attempts of a chunk are numbered 0 to 2; a retry delay begins
\* only when an attempt before the last has failed and is followed by the
\* next attempt, so that the attempt with number n comes after n delays; and
\* a chunked download that is not cancelled fails with 'Download failed' in
\* exactly the steps in which a chunk fails in its last attempt.
ThreeAttemptsThenFailure ==
  [][\A r \in RunIds :
       /\ \A i \in ChunkIds(r) :
            /\ runs[r].chunks[i].attempt \in 0..(CHUNK_RETRY_COUNT - 1)
            /\ runs'[r].chunks # <<>> =>
                 /\ runs'[r].chunks[i].st = "delay" /\ runs[r].chunks[i].st # "delay" =>
                      /\ InAttempt(r, i)
                      /\ runs[r].chunks[i].attempt < CHUNK_RETRY_COUNT - 1
                      /\ runs'[r].chunks[i].attempt = runs[r].chunks[i].attempt
                 /\ runs'[r].chunks[i].st = "fetch" /\ runs[r].chunks[i].st # "fetch" =>
                      /\ runs[r].chunks[i].st = "delay"
                      /\ runs'[r].chunks[i].attempt = runs[r].chunks[i].attempt + 1
       /\ runs[r].pc = "chunks" /\ Uncancelled(r) =>
            (/\ runs'[r].pc = "ended"
             /\ heap'[runs[r].task].status = "failed"
             /\ heap'[runs[r].task].error = "Download failed")
            <=> \E i \in ChunkIds(r) :
                  /\ InAttempt(r, i)
                  /\ runs[r].chunks[i].attempt = CHUNK_RETRY_COUNT - 1
                  /\ ChunkGaveUp(r, i)
                  /\ heap'[runs[r].task].status # "paused"
                  /\ heap'[runs[r].task].error # "Download timed out"
                  /\ tasks' = tasks]_vars

\* C13 happens: a chunk that has failed twice, and waited twice, receives the
\* body of its third attempt in a run that is not cancelled.
ThirdAttemptStreams ==
  \E r \in RunIds :
    /\ runs[r].pc = "chunks"
    /\ Uncancelled(r)
    /\ heap[runs[r].task].status = "downloading"
    /\ \E i \in ChunkIds(r) :
         /\ runs[r].chunks[i].st = "stream"
         /\ runs[r].chunks[i].attempt = CHUNK_RETRY_COUNT - 1

\* C14: in a run whose signal has been aborted (by pauseTask, by deleteTask
\* or by the timeout) no request is in flight: not the probe, not the
\* single-stream request or its body, and no request or body of a chunk; so
\* no chunk begins an attempt after the signal was aborted.
NoRequestAfterCancel ==
  \A r \in RunIds :
    runs[r].signal =>
      /\ runs[r].pc \notin {"probe", "fetch", "stream"}
      /\ \A i \in ChunkIds(r) : runs[r].chunks[i].st \notin {"fetch", "stream"}

\* C14 fails: the timeout fired while a chunk waited in its retry delay, and
\* the chunk has begun its next attempt.
FetchAfterTimeout ==
  \E r \in RunIds :
    /\ runs[r].signal
    /\ ~ runs[r].aborted
    /\ ~ runs[r].timer
    /\ \E i \in ChunkIds(r) :
         runs[r].chunks[i].st = "fetch" /\ runs[r].chunks[i].attempt > 0

\* C15: a run that has ended has no timeout armed; and a run whose signal
\* was aborted by the timeout (not by pauseTask or deleteTask, which abort
\* the Downloader too) goes nowhere but to its end, with its task failed
\* with 'Download timed out'.
TimeoutFailsTheTask ==
  /\ [](\A r \in RunIds : runs[r].pc = "ended" => ~ runs[r].timer)
  /\ [][\A r \in RunIds :
          /\ runs[r].signal /\ ~ runs[r].aborted
          /\ runs[r].pc # "ended"
          /\ runs'[r].pc # runs[r].pc
          => /\ runs'[r].pc = "ended"
             /\ heap'[runs[r].task].status = "failed"
             /\ heap'[runs[r].task].error = "Download timed out"]_vars

\* C15 fails: the timeout has fired on a run, and the run has finished its
\* download and is injecting.
InjectingAfterTimeout ==
  \E r \in RunIds :
    /\ runs[r].signal
    /\ ~ runs[r].aborted
    /\ ~ runs[r].timer
    /\ runs[r].pc = "inject"
    /\ heap[runs[r].task].status = "injecting"

\* The bytes in the part-files of a run whose chunks are all done.
RECURSIVE SumWritten(_)
SumWritten(chunks) ==
  IF chunks = <<>> THEN 0 ELSE SumWritten(Front(chunks)) + Last(chunks).downloaded

\* C16: when every chunk of a run has finished and the part-files are merged
\* into the destination, the bytes written to the part-files, which are the
\* bytes of the destination, are as many as the probed Content-Length.
MergedSizeIsContentLength ==
  \A r \in RunIds :
    runs[r].pc = "merge" /\ Uncancelled(r) =>
      SumWritten(runs[r].chunks) = runs[r].totalSize

\* C16 fails: the origin has answered both range requests of a file of two
\* bytes with the whole file (as it does with status 200); the merge has
\* appended both part-files, four bytes, and the download is about to resolve.
MergedTwiceTheFile ==
  \E r \in RunIds :
    /\ runs[r].pc = "merge"
    /\ Uncancelled(r)
    /\ runs[r].totalSize = 2
    /\ runs[r].merged = Len(runs[r].chunks)
    /\ \A i \in ChunkIds(r) : runs[r].chunks[i].downloaded = 2
    /\ runs[r].destPath \in files

RECURSIVE SumLengths(_)
SumLengths(chunks) ==
  IF chunks = <<>> THEN 0
  ELSE SumLengths(Front(chunks)) + (Last(chunks).end - Last(chunks).start + 1)

\* C17: for a file of N >= 1 bytes and T threads, 1 <= T <= 32, splitChunks
\* returns k chunks, 1 <= k <= T, with the indices 0..k-1 in order; no chunk
\* is empty, none is longer than ceil(N/T), the first starts at byte 0, each
\* next one starts at the byte after the one before ends, the last ends at
\* byte N-1, no two overlap, and the lengths sum to N.
SplitChunksCoversTheFile ==
  LET N == runs[1].totalSize
      T == runs[1].threads
      chunks == runs[1].chunks
      k == Len(chunks)
  IN  runs[1].called =>
        /\ k >= 1 /\ k <= T
        /\ \A j \in 1..k :
             /\ chunks[j].index = j - 1
             /\ chunks[j].start <= chunks[j].end
             /\ (chunks[j].end - chunks[j].start) * T < N
        /\ chunks[1].start = 0
        /\ chunks[k].end = N - 1
        /\ \A j \in 1..(k - 1) : chunks[j + 1].start = chunks[j].end + 1
        /\ \A j \in 1..k : \A l \in 1..k : j < l => chunks[j].end < chunks[l].start
        /\ SumLengths(chunks) = N

\* C17 happens: splitChunks has returned fewer chunks than there are
\* threads, and the last chunk is shorter than the first.
SplitWithShortLastChunk ==
  /\ runs[1].called
  /\ runs[1].threads = MaxThreads
  /\ Len(runs[1].chunks) > 1
  /\ Len(runs[1].chunks) < runs[1].threads
  /\ LET first == runs[1].chunks[1]
         last == runs[1].chunks[Len(runs[1].chunks)]
     IN  last.end - last.start < first.end - first.start

\* The step in which the HEAD request of run r ends with the given outcome.
ProbeStep(r, ok, acceptRanges, length) ==
  /\ runs[r].pc = "probe"
  /\ Turn(probeDone(Cur, r, ok, acceptRanges, length))

\* The probe outcome on which download() may use range requests.
RangeOutcome(ok, acceptRanges, length) ==
  ok /\ acceptRanges /\ length > 0 /\ DOWNLOAD_THREADS > 1

\* C18 as stated: download() goes on with chunks only after a probe answered
\* 2xx with Accept-Ranges: bytes and a positive Content-Length; after every
\* other outcome of the probe it goes on with the single-stream request.
ProbeAlwaysFallsBack ==
  [][\A r \in RunIds, ok \in BOOLEAN, acceptRanges \in BOOLEAN, length \in ContentLengths :
       ProbeStep(r, ok, acceptRanges, length) =>
         /\ runs'[r].pc = "chunks" => RangeOutcome(ok, acceptRanges, length)
         /\ ~ RangeOutcome(ok, acceptRanges, length) => runs'[r].pc = "fetch"]_vars

\* C18, amended: download() goes on with chunks only after a probe answered
\* 2xx with Accept-Ranges: bytes and a positive Content-Length; after every
\* other outcome it goes on with the single-stream request, unless the probe
\* answered 2xx with a Content-Length above MAX_DOWNLOAD_SIZE.
ProbeFallsBackUnlessTooLarge ==
  [][\A r \in RunIds, ok \in BOOLEAN, acceptRanges \in BOOLEAN, length \in ContentLengths :
       ProbeStep(r, ok, acceptRanges, length) =>
         /\ runs'[r].pc = "chunks" => RangeOutcome(ok, acceptRanges, length)
         /\ /\ ~ RangeOutcome(ok, acceptRanges, length)
            /\ ~ ok \/ length <= MAX_DOWNLOAD_SIZE
            => /\ runs'[r].pc = "fetch"
               /\ heap'[runs[r].task].status = heap[runs[r].task].status]_vars

\* C18 happens: the probe of a run has ended and the run, not cancelled,
\* awaits the answer to its single-stream request while its task is
\* downloading.
FellBackToSingleStream ==
  \E r \in RunIds :
    /\ runs[r].pc = "fetch"
    /\ runs[r].chunks = <<>>
    /\ Uncancelled(r)
    /\ heap[runs[r].task].status = "downloading"
    /\ runs[r].destPath \notin files

\* C19: when the probe of a run is answered 2xx with a Content-Length above
\* MAX_DOWNLOAD_SIZE, the run ends in that step with its task failed; it has
\* made no chunk and no single-stream request, and the step creates no
\* file.
TooLargeFailsBeforeAnyFetch ==
  [][\A r \in RunIds, acceptRanges \in BOOLEAN, length \in ContentLengths :
       ProbeStep(r, TRUE, acceptRanges, length) /\ length > MAX_DOWNLOAD_SIZE =>
         /\ runs'[r].pc = "ended"
         /\ runs'[r].chunks = <<>>
         /\ heap'[runs[r].task].status = "failed"
         /\ heap'[runs[r].task].error = "Download failed"
         /\ files' = files]_vars

\* C19 happens: the only run of a task has ended with the task failed
\* before anything was written in the directory made for it, as it does when
\* the probe reports a Content-Length above the limit.
FailedBeforeAnyFile ==
  \E id \in tasks \cap TaskIds :
    /\ heap[id].status = "failed"
    /\ heap[id].error = "Download failed"
    /\ heap[id].filePath # NoPath
    /\ Dirname(heap[id].filePath) \in dirs
    /\ IsEmptyDir(Cur, Dirname(heap[id].filePath))
    /\ Len(runs) = 1
    /\ runs[1].task = id /\ runs[1].pc = "ended" /\ ~ runs[1].timer

\* The step is a call of startDownload for the task id, which was there before.
RunStartedFor(id) ==
  /\ Len(runs') = Len(runs) + 1
  /\ runs'[Len(runs')].task = id

CreateRejected(req) ==
  \/ req.accountHash = <<>>
  \/ ~ validateDownloadURL(req.downloadURL)
  \/ ~ safePathSegment(req.accountHash).ok
  \/ ~ safePathSegment(req.bundleID).ok
  \/ ~ safePathSegment(req.version).ok
  \/ req.sizeCheck \in {400, 413, 502}

\* C21: a create request that is rejected (missing field, download URL not
\* allowed, accountHash, bundleID or version not a valid segment, size
\* pre-flight answering 400, 413 or 502) is answered with an error status and
\* creates no task: when its handler is done, the task map, the controller
\* and downloader maps, the runs, the disk and the snapshot are as they were.
RejectedCreateChangesNothing ==
  \A req \in Requests :
    CreateRejected(req) =>
      /\ createRouteStatus(req) \in {400, 413, 502}
      /\ createRouteEffect(Cur, req) = Cur
      /\ EndOfTurn(createRouteEffect(Cur, req)) = Cur

\* C21 happens: while a task is downloading and has its file directory on
\* disk, requests of each kind of rejection are answered (a missing field, a
\* URL that is not https, a version "..", a pre-flight answering 413), and
\* a request that is accepted would be answered with 201.
CreateRefusedWhileDownloading ==
  /\ \E id \in tasks : heap[id].status = "downloading" /\ heap[id].filePath # NoPath
  /\ \E r \in RunIds : runs[r].pc = "probe"
  /\ \E req \in Requests : req.accountHash = <<>> /\ createRouteStatus(req) = 400
  /\ \E req \in Requests :
       /\ req.downloadURL.parsed /\ req.downloadURL.protocol = "http:"
       /\ createRouteStatus(req) = 400 /\ createRouteEffect(Cur, req) = Cur
  /\ \E req \in Requests :
       /\ req.version = <<".", ".">> /\ validateDownloadURL(req.downloadURL)
       /\ createRouteStatus(req) = 400 /\ createRouteEffect(Cur, req) = Cur
  /\ \E req \in Requests : req.sizeCheck = 413 /\ createRouteStatus(req) = 413
  /\ \E req \in Requests : ~ CreateRejected(req) /\ createRouteStatus(req) = 201

\* C22: what the download routes send for a task (create, list, get, the
\* progress events, pause, resume), whatever the status of the task, has no
\* field downloadURL, sinfs, iTunesMetadata or filePath, has the other fields
\* of the task as they are, and has hasFile true exactly when the task has a
\* filePath and the file is on disk.
ResponsesHoldNoSecret ==
  \A id \in DOMAIN heap :
    LET rep == sanitizeTaskForResponse(Cur, id)
    IN  /\ DOMAIN rep \cap {"downloadURL", "sinfs", "iTunesMetadata", "filePath"} = {}
        /\ "hasFile" \in DOMAIN rep
        /\ rep.hasFile <=> heap[id].filePath # NoPath /\ heap[id].filePath \in files
        /\ \A f \in {"status", "progress", "error", "accountHash"} : rep[f] = heap[id][f]

\* C22 happens: a task is downloading, holds its download URL and its
\* filePath and has no file yet (hasFile is false), and a completed task has
\* its file (hasFile is true).
ResponsesWithAndWithoutFile ==
  \E id \in tasks, other \in tasks :
    /\ heap[id].status = "downloading"
    /\ heap[id].downloadURL = AppleURL
    /\ heap[id].filePath # NoPath
    /\ ~ sanitizeTaskForResponse(Cur, id).hasFile
    /\ heap[other].status = "completed"
    /\ sanitizeTaskForResponse(Cur, other).hasFile

\* A version string whose segments are all numbers.
IsNumeric(v) == \A i \in DOMAIN v : v[i] # <<>>

\* The digits of a number without its leading zeros.
RECURSIVE StripZeros(_)
StripZeros(s) == IF s # <<>> /\ s[1] = "0" THEN StripZeros(Tail(s)) ELSE s

\* The number x is smaller than the number y: it has fewer digits, or as
\* many and a smaller one at the first place they differ.
SegmentLess(x, y) ==
  LET sx == StripZeros(x)
      sy == StripZeros(y)
  IN  \/ Len(sx) < Len(sy)
      \/ /\ Len(sx) = Len(sy)
         /\ \E i \in 1..Len(sx) :
              /\ DigitValue(sx[i]) < DigitValue(sy[i])
              /\ \A k \in 1..(i - 1) : sx[k] = sy[k]

\* The version padded on the right with segments 0 to n segments.
PadTo(v, n) == [i \in 1..n |-> IF i <= Len(v) THEN v[i] ELSE <<"0">>]

PaddedLen(a, b) == IF Len(a) >= Len(b) THEN Len(a) ELSE Len(b)

\* The first position at which the padded versions differ as numbers; 0
\* when they differ at none.
FirstDifference(a, b) ==
  LET n == PaddedLen(a, b)
      differ == { i \in 1..n : StripZeros(PadTo(a, n)[i]) # StripZeros(PadTo(b, n)[i]) }
  IN  IF differ = {} THEN 0 ELSE CHOOSE k \in differ : \A m \in differ : k <= m

\* C23: for dot-separated numeric version strings a and b, compareVersions(a, b)
\* is 0 exactly when the segments of a and b are equal as numbers once the
\* shorter version is padded on the right with zeros; otherwise it is
\* positive when a has the larger number at the first position that differs,
\* and negative when b has.
CompareVersionsIsNumericOrder ==
  LET call == runs[1]
      a == call.args[1]
      b == call.args[2]
      n == PaddedLen(a, b)
      d == FirstDifference(a, b)
  IN  call.fn = "compareVersions" /\ call.called /\ IsNumeric(a) /\ IsNumeric(b) =>
        /\ call.result = 0 <=> d = 0
        /\ d # 0 =>
             /\ call.result > 0 <=> SegmentLess(PadTo(b, n)[d], PadTo(a, n)[d])
             /\ call.result < 0 <=> SegmentLess(PadTo(a, n)[d], PadTo(b, n)[d])

\* C23 happens: compareVersions("2.10", "2.2.0") has returned a positive
\* number (10 is above 2 as a number, and the third segment is padded).
ComparedTenWithTwo ==
  /\ runs[1].fn = "compareVersions" /\ runs[1].called
  /\ runs[1].args = << << <<"2">>, <<"1", "0">> >>, << <<"2">>, <<"2">>, <<"0">> >> >>
  /\ runs[1].result > 0

\* C24: isNewerVersion(latest, current) is true exactly when latest is above
\* current in the order of the zero-padded numeric segments: it is false for
\* equal versions, for versions equal up to trailing zeros, for a latest
\* that is older (as a shorter latest that begins current is), and it is
\* never true in both directions.
IsNewerVersionIsStrictlyGreater ==
  LET call == runs[1]
      latest == call.args[1]
      current == call.args[2]
      n == PaddedLen(latest, current)
      d == FirstDifference(latest, current)
  IN  call.fn = "isNewerVersion" /\ call.called /\ IsNumeric(latest) /\ IsNumeric(current) =>
        /\ call.result <=> d # 0 /\ SegmentLess(PadTo(current, n)[d], PadTo(latest, n)[d])
        /\ latest = current => ~ call.result
        /\ d = 0 => ~ call.result
        /\ IsPrefix(latest, current) => ~ call.result
        /\ ~ (call.result /\ isNewerVersion(current, latest))

\* C24 happens: isNewerVersion("2", "2.0.0") has returned false, and
\* isNewerVersion("2.0.0", "2") is false as well.
NotNewerUpToTrailingZeros ==
  /\ runs[1].fn = "isNewerVersion" /\ runs[1].called
  /\ runs[1].args = << << <<"2">> >>, << <<"2">>, <<"0">>, <<"0">> >> >>
  /\ runs[1].result = FALSE
  /\ ~ isNewerVersion(runs[1].args[2], runs[1].args[1])

\* A label of a hostname in lower case.
LowerCase(label) ==
  CASE label = "APPLE" -> "apple"
    [] OTHER -> label

\* C25: validateDownloadURL accepts a URL exactly when it parses, its scheme
\* is https, its hostname ends with ".apple.com" whatever the case of the
\* letters, and the hostname is neither a dotted-decimal IPv4 literal nor a
\* bracketed literal; every other input is rejected with an error.
ValidateDownloadURLAcceptsAppleOnly ==
  LET call == runs[1]
      url == call.args[1]
      host == url.hostname
      n == Len(host)
  IN  call.fn = "validateDownloadURL" /\ call.called =>
        (call.result <=>
           /\ url.parsed
           /\ url.protocol = "https:"
           /\ n >= 3 /\ LowerCase(host[n - 1]) = "apple" /\ LowerCase(host[n]) = "com"
           /\ ~ (n = 4 /\ \A i \in 1..4 : host[i] \in {"0", "1", "2", "3", "4", "5", "6", "7", "8", "9"})
           /\ host[1] # "[")

\* C25 happens: validateDownloadURL has accepted https://cdn.APPLE.com.
AcceptedAppleHost ==
  /\ runs[1].fn = "validateDownloadURL" /\ runs[1].called
  /\ runs[1].args[1] = [parsed |-> TRUE, protocol |-> "https:",
                        hostname |-> <<"cdn", "APPLE", "com">>]
  /\ runs[1].result = TRUE

\* C26: when safePathSegment returns, what it returns is not empty, has only
\* characters of [A-Za-z0-9._-] and is neither "." nor ".."; an input that is
\* of that form already is returned as it is, and safePathSegment of the
\* result is the result.
SafePathSegmentIsSafe ==
  LET call == runs[1]
      value == call.args[1]
      InForm(s) == /\ s # <<>>
                   /\ \A i \in 1..Len(s) : s[i] \in {"a", "b", "A", "1", "2", ".", "_", "-"}
                   /\ s # <<".">> /\ s # <<".", ".">>
  IN  call.fn = "safePathSegment" /\ call.called =>
        /\ call.result.ok =>
             /\ InForm(call.result.val)
             /\ safePathSegment(call.result.val) = call.result
        /\ InForm(value) => call.result = [ok |-> TRUE, val |-> value]

\* C26 happens: safePathSegment("../") has returned ".._".
CleanedDotsAndSlash ==
  /\ runs[1].fn = "safePathSegment" /\ runs[1].called
  /\ runs[1].args[1] = <<".", ".", "/">>
  /\ runs[1].result = [ok |-> TRUE, val |-> <<".", ".", "_">>]

\* The completed tasks of the map in the state S.
Completed(S) == { id \in S.tasks : S.heap[id].status = "completed" }

\* The size of the file of a task in the state S: 0 when it has none.
FileSize(S, id) ==
  IF S.heap[id].filePath \in S.files /\ S.heap[id].filePath \in DOMAIN S.stat
  THEN S.stat[S.heap[id].filePath].size
  ELSE 0

RECURSIVE SizeOfAll(_, _)
SizeOfAll(S, ids) ==
  IF ids = {} THEN 0
  ELSE LET id == CHOOSE i \in ids : TRUE
       IN  FileSize(S, id) + SizeOfAll(S, ids \ {id})

\* What T, the state after runSpaceCleanup in the state S, has to be.
SpaceSwept(S, T) ==
  LET budget == S.config.autoCleanupMaxMB
      deleted == S.tasks \ T.tasks
      mtime(id) == S.stat[S.heap[id].filePath].mtimeMs
  IN  /\ T.tasks \subseteq S.tasks
      /\ budget > 0 => SizeOfAll(T, Completed(T)) <= budget
      /\ \A d \in deleted :
           /\ d \in Completed(S) /\ S.heap[d].filePath \in S.files
           /\ \A o \in Completed(S) :
                S.heap[o].filePath \in S.files /\ mtime(o) < mtime(d) => o \in deleted
      /\ deleted # {} =>
           \E d \in deleted : SizeOfAll(T, Completed(T)) + FileSize(S, d) > budget
      /\ budget = 0 \/ SizeOfAll(S, Completed(S)) <= budget => T = S

\* C27: with autoCleanupMaxMB > 0, after runSpaceCleanup the files of the
\* completed tasks that remain sum up to the budget at most; a task is
\* deleted only if it is completed and every completed task with an older
\* file is deleted too; the deletion stops as soon as the sum is within the
\* budget (without the last task deleted it was not); and nothing is deleted
\* when the sum is within the budget already or autoCleanupMaxMB is 0.  It
\* is so for runSpaceCleanup in every state, and for the one that a run
\* starts with.
SpaceCleanupKeepsBudget ==
  /\ [] SpaceSwept(Cur, runSpaceCleanup(Cur))
  /\ [][Len(runs') > Len(runs) /\ config.autoCleanupDays = 0 =>
          /\ config.autoCleanupMaxMB > 0 =>
               SizeOfAll(Cur, Completed(Cur))' <= config.autoCleanupMaxMB
          /\ \A id \in tasks : id \in tasks' \/ id \in (tasks \ runSpaceCleanup(Cur).tasks)
          /\ \A id \in tasks : id \in tasks' => id \in runSpaceCleanup(Cur).tasks]_vars

\* C27 happens: a run has started with the size sweep on and the age sweep
\* off; the sweep has deleted the task with the oldest file and has kept a
\* task with a younger one, whose file is there.
SpaceCleanupEvictedOldest ==
  /\ config.autoCleanupMaxMB > 0 /\ config.autoCleanupDays = 0
  /\ Len(runs) = 1
  /\ \E kept \in tasks :
       /\ heap[kept].status = "completed"
       /\ heap[kept].filePath \in files
       /\ \E gone \in DOMAIN stat :
            /\ gone \notin files
            /\ stat[gone].mtimeMs < stat[heap[kept].filePath].mtimeMs
            /\ \A id \in tasks : heap[id].filePath # gone

\* The completed tasks of the state S whose file is older than the cutoff.
Expired(S) ==
  { id \in Completed(S) :
      /\ S.heap[id].filePath \in S.files
      /\ S.heap[id].filePath \in DOMAIN S.stat
      /\ S.stat[S.heap[id].filePath].mtimeMs < S.now - S.config.autoCleanupDays }

\* What T, the state after runTimeCleanup in the state S, has to be.
TimeSwept(S, T) ==
  /\ S.config.autoCleanupDays > 0 =>
       /\ T.tasks = S.tasks \ Expired(S)
       /\ \A id \in T.tasks : T.heap[id] = S.heap[id]
       /\ \A id \in Expired(S) :
            /\ S.heap[id].filePath \notin T.files
            /\ \A item \in T.snapshot.items : item.id # id
       /\ Expired(S) = {} => T = S
  /\ S.config.autoCleanupDays = 0 => T = S

\* The state at the next midnight.
AtMidnight == [Cur EXCEPT !.now = @ + 1]

\* C28: with autoCleanupDays > 0, runTimeCleanup deletes, through deleteTask
\* (the file and the snapshot entry go with the task), exactly the completed
\* tasks whose file was modified before now - autoCleanupDays days, and
\* keeps every other task as it is; with autoCleanupDays = 0 it deletes
\* nothing.  It is so for runTimeCleanup now and at the next midnight, and
\* for the sweep of each midnight that comes.
TimeCleanupDeletesExpired ==
  /\ [](TimeSwept(Cur, runTimeCleanup(Cur)) /\ TimeSwept(AtMidnight, runTimeCleanup(AtMidnight)))
  /\ [][now' # now =>
          /\ config.autoCleanupDays > 0 => tasks' = tasks \ Expired(AtMidnight)
          /\ config.autoCleanupDays = 0 => tasks' = tasks]_vars

\* C28 happens: a midnight has passed with the age sweep on and the size
\* sweep off; a task whose file was one day old at the start is gone with
\* its file, and a task whose file is just autoCleanupDays days old is kept.
TimeCleanupAtMidnight ==
  /\ config.autoCleanupDays > 0 /\ config.autoCleanupMaxMB = 0
  /\ now = MaxAge + 1
  /\ runs = <<>>
  /\ \E kept \in tasks :
       /\ heap[kept].filePath \in files
       /\ stat[heap[kept].filePath].mtimeMs = now - config.autoCleanupDays
  /\ \E gone \in DOMAIN stat :
       /\ stat[gone].mtimeMs = MaxAge - 1
       /\ gone \notin files
       /\ \A id \in tasks : heap[id].filePath # gone

\* C30: when the file of a completed task is gone from the disk, the next
\* sweep (that of a midnight, or those at the start of a run), with the age
\* sweep and the size sweep both on, removes the task from the map.
VanishedTaskIsSwept ==
  [][/\ now' # now \/ Len(runs') > Len(runs)
     /\ config.autoCleanupDays > 0
     /\ config.autoCleanupMaxMB > 0
     => \A id \in tasks :
          heap[id].status = "completed" /\ heap[id].filePath \notin files => id \notin tasks']_vars

\* The entries of tasks.json, when it holds an array.
SnapshotEntries(disk) ==
  IF disk.snapshot.kind = "array" THEN disk.snapshot.items ELSE {}

\* The task of the state T that is restored from the entry is completed, at
\* progress 100, and has no download URL, no signature blob and no metadata.
Restored(T, item) ==
  /\ item.id \in DOMAIN T.heap
  /\ T.heap[item.id].status = "completed"
  /\ T.heap[item.id].progress = 100
  /\ T.heap[item.id].filePath = item.filePath
  /\ T.heap[item.id].downloadURL = NoURL
  /\ T.heap[item.id].sinfs = 0
  /\ T.heap[item.id].iTunesMetadata = FALSE

\* What the state T after startup on the data directory has to be, when
\* `admitted` are the entries of tasks.json that are admitted and `kept`
\* those of them that are in the map at the end.
StartedFrom(disk, T, admitted, kept) ==
  /\ T.tasks = { item.id : item \in kept }
  /\ \A item \in kept : Restored(T, item)
  /\ \A f \in T.files :
       WithinPackages(f) => \E item \in admitted : item.filePath = f
  /\ disk.snapshot.kind \in {"corrupt", "object"} => T.tasks = {}

Injected == runs[1].fn = "inject" /\ runs[1].called

\* What the sentence reads in the archive: the paths of the manifest, the
\* executable of the info plist, the name of the bundle.
ManifestOf(archive) ==
  LET found == { i \in 1..Len(archive.entries) : IsManifest(archive.entries[i].filename) }
      plist == archive.entries[CHOOSE i \in found : \A j \in found : i <= j].plist
  IN  IF found # {} /\ plist.parsed /\ plist.SinfPaths.type = "array"
      THEN [present |-> TRUE, SinfPaths |-> plist.SinfPaths.value]
      ELSE [present |-> FALSE, SinfPaths |-> <<>>]

InfoOf(archive) ==
  LET found == { i \in 1..Len(archive.entries) : IsInfoPlist(archive.entries[i].filename) }
      plist == archive.entries[CHOOSE i \in found : \A j \in found : i <= j].plist
  IN  IF found # {} /\ plist.parsed /\ plist.CFBundleExecutable.type = "string"
      THEN [present |-> TRUE, CFBundleExecutable |-> plist.CFBundleExecutable.value]
      ELSE [present |-> FALSE, CFBundleExecutable |-> <<>>]

\* The targets of the result that carry a signature blob.
SignatureTargets(res) ==
  LET carriesBlob(f) == f.entryPath # << <<"iTunesMetadata.plist">> >>
  IN  SelectSeq(res.filesToInject, carriesBlob)

\* inject has chosen just these targets, and has not failed before it had.
Selected(res, targets) ==
  /\ res.error \notin {"openZip failed", "Could not read bundle name",
                       "Could not read manifest or info plist"}
  /\ SignatureTargets(res) = targets

ManifestTargets(archive, sinfs) ==
  [i \in 1..Min(Len(ManifestOf(archive).SinfPaths), Len(sinfs)) |->
     [entryPath |-> << <<"Payload">>, <<"X", ".app">> >> \o ManifestOf(archive).SinfPaths[i],
      data |-> base64Decode(sinfs[i].sinf)]]

InfoTarget(archive, sinfs) ==
  LET executable == InfoOf(archive).CFBundleExecutable
  IN  << [entryPath |-> << <<"Payload">>, <<"X", ".app">>, <<"SC_Info">> >>
                        \o Front(executable) \o << Last(executable) \o <<".sinf">> >>,
          data |-> base64Decode(sinfs[1].sinf)] >>

FailedToSelect(res) ==
  /\ res.error = "Could not read manifest or info plist"
  /\ ~ res.zip /\ res.added = <<>>

\* C31, as the sentence has it: with an array SinfPaths in the manifest the
\* targets are the first min(len(SinfPaths), len(sinfs)) paths under
\* Payload/<bundle>.app, each with its blob; else with a string
\* CFBundleExecutable and a blob the one target SC_Info/<executable>.sinf with
\* the first blob; else inject fails with "Could not read manifest or info
\* plist" and the archive is as it was.
InjectSelectsTargets ==
  Injected =>
    LET sinfs == runs[1].args[1]
        archive == runs[1].args[2]
        res == runs[1].result
    IN  IF ManifestOf(archive).present THEN Selected(res, ManifestTargets(archive, sinfs))
        ELSE IF InfoOf(archive).present /\ Len(sinfs) >= 1
        THEN Selected(res, InfoTarget(archive, sinfs))
        ELSE FailedToSelect(res)

\* C31, amended: the choice is made when the archive opens and names its
\* bundle (else inject fails with the error of that, and leaves the archive
\* as it was); and with a string CFBundleExecutable and no blob there is no
\* target and no failure.
InjectSelectsTargetsOfNamedBundle ==
  Injected =>
    LET sinfs == runs[1].args[1]
        archive == runs[1].args[2]
        res == runs[1].result
        named == /\ archive.opens
                 /\ \E i \in 1..Len(archive.entries) :
                      IsInfoPlist(archive.entries[i].filename)
    IN  IF ~ named
        THEN /\ res.error \in {"openZip failed", "Could not read bundle name"}
             /\ ~ res.zip /\ res.added = <<>>
        ELSE IF ManifestOf(archive).present
        THEN Selected(res, ManifestTargets(archive, sinfs))
        ELSE IF InfoOf(archive).present
        THEN IF Len(sinfs) >= 1 THEN Selected(res, InfoTarget(archive, sinfs))
             ELSE Selected(res, <<>>)
        ELSE FailedToSelect(res)

\* inject has returned with one target of a manifest that lists two paths, for
\* the one blob it was given, and the archive tool has added it.
InjectedOneBlobOfTwoPaths ==
  /\ Injected
  /\ Len(runs[1].args[1]) = 1
  /\ ManifestOf(runs[1].args[2]).present
  /\ Len(ManifestOf(runs[1].args[2]).SinfPaths) = 2
  /\ Len(SignatureTargets(runs[1].result)) = 1
  /\ runs[1].result.error = NoError
  /\ runs[1].result.added = runs[1].result.filesToInject

\* The entry path, taken from the staging directory, does not lead to a place
\* strictly beneath it.
Escapes(entryPath) ==
  LET fullPath == Resolve(TmpDir \o entryPath)
  IN  ~ (IsPrefix(TmpDir, fullPath) /\ fullPath # TmpDir)

\* C37: when addFilesToZip is given a target whose entry path resolves to a
\* place that is not strictly beneath the staging directory, it fails, the
\* archive tool is not started and the archive is as it was; and whether it
\* succeeds, the guard fires or the archive tool fails, nothing is left of
\* the staging directory when it exits.
AddFilesToZipGuardsAndCleans ==
  (Injected /\ runs[1].result.filesToInject # <<>>) =>
    LET res == runs[1].result
        targets == res.filesToInject
    IN  /\ (\E i \in 1..Len(targets) : Escapes(targets[i].entryPath)) =>
             /\ res.error # NoError
             /\ ~ res.zip
             /\ res.added = <<>>
        /\ res.tmp = {}
        /\ res.zip => res.staged = [i \in 1..Len(targets) |-> targets[i].entryPath]

\* addFilesToZip has staged a first target, met a second one that leaves the
\* staging directory, and has exited without starting the archive tool.
GuardFiredAfterStaging ==
  /\ Injected
  /\ Len(runs[1].result.filesToInject) >= 2
  /\ ~ Escapes(runs[1].result.filesToInject[1].entryPath)
  /\ Escapes(runs[1].result.filesToInject[2].entryPath)
  /\ Len(runs[1].result.staged) = 1
  /\ runs[1].result.error = "Path traversal detected"
  /\ ~ runs[1].result.zip
  /\ runs[1].result.tmp = {}

\* Run r ends in this step with its task failed.
RunFails(r) ==
  /\ runs[r].pc # "ended"
  /\ runs'[r].pc = "ended"
  /\ heap'[runs[r].task].status = "failed"

\* The step is one that raises the signal of run r: its timer fires, or its
\* task is paused or deleted.
StepCancels(r) ==
  LET id == runs[r].task
  IN  \/ /\ runs[r].timer
         /\ Cur' = EndOfTurn(controllerAbort([Cur EXCEPT !.runs[r].timer = FALSE], r))
      \/ /\ pauseTaskSucceeds(Cur, id)
         /\ Cur' = EndOfTurn(pauseTask(Cur, id))
      \/ /\ id \in tasks
         /\ Cur' = EndOfTurn(deleteTask(Cur, id))

\* The signal of run r was raised before the step (by the timer, by
\* pauseTask or by deleteTask), or it is raised in it.
Cancelled(r) == runs[r].signal \/ runs[r].aborted \/ StepCancels(r)

\* C32: when a run fails, the error of its task is "Download timed out" if
\* the run fails because its signal was raised, and "Download failed" if it
\* fails for another cause; a failed task has an error; and the step that
\* starts a run leaves the task without error unless it fails it.
ErrorTellsTheCause ==
  /\ [][\A r \in RunIds :
          RunFails(r) =>
            heap'[runs[r].task].error =
              IF Cancelled(r) THEN "Download timed out" ELSE "Download failed"]_vars
  /\ [](\A id \in DOMAIN heap : heap[id].status = "failed" => heap[id].error # NoError)
  /\ [][\A r \in 1..Len(runs') :
          (r > Len(runs) /\ heap'[runs'[r].task].status # "failed") =>
            heap'[runs'[r].task].error = NoError]_vars

\* C33: within one run, the downloaded value of the events that onProgress is
\* given never decreases.  The task's progress is the percentage of the last
\* event (of its downloaded value in the total of the run, which is fixed once
\* the chunks or the stream have begun), so it never falls while the run goes
\* on, also when a chunk fails part-way and is fetched again.
ProgressNeverFallsInARun ==
  [][\A r \in RunIds :
       (runs[r].pc \in {"chunks", "merge", "stream", "closing"}) =>
         heap'[runs[r].task].progress >= heap[runs[r].task].progress]_vars

\* The download of run r succeeds in the step: download() resolves and the
\* task goes on to injecting or to completed.
DownloadSucceeds(r) ==
  /\ runs[r].pc \in {"merge", "stream"}
  /\ runs'[r].pc \notin {"merge", "stream"}
  /\ heap[runs[r].task].status = "downloading"
  /\ heap'[runs[r].task].status \in {"injecting", "completed"}

\* C34: when a download succeeds, chunked or as a single stream, the last
\* event that onProgress is given has downloaded equal to total and the speed
\* "0 B/s", and the interval timer of the run gives no event after it.
LastEventIsTheWholeFile ==
  [][\A r \in RunIds :
       DownloadSucceeds(r) =>
         /\ finalEvent(Cur, r).downloaded = finalEvent(Cur, r).total
         /\ finalEvent(Cur, r).speed = "0 B/s"
         /\ runs'[r].pc \notin {"chunks", "stream", "closing"}]_vars

\* The merge of run r begins in the step.
MergeBegins(r) == runs[r].pc = "chunks" /\ runs'[r].pc = "merge"

\* The merge of run r appends one part-file in the step.
MergeAppends(r) ==
  /\ runs[r].pc = "merge"
  /\ runs'[r].pc = "merge"
  /\ runs'[r].merged # runs[r].merged

\* C35: the merge begins only when every chunk has completed; it appends the
\* part-files 0..k-1 in the order of their indexes, each of them present when
\* it is appended, and succeeds only after the last one; and when the chunked
\* download has succeeded no part-file of its destination is on the disk.
MergeInOrderLeavesNoPart ==
  [][\A r \in RunIds :
       /\ MergeBegins(r) =>
            /\ \A i \in ChunkIds(r) : runs'[r].chunks[i].st = "done"
            /\ runs'[r].merged = 0
       /\ MergeAppends(r) =>
            /\ runs'[r].merged = runs[r].merged + 1
            /\ PartPath(runs[r].destPath, runs[r].merged) \in files
       /\ (DownloadSucceeds(r) /\ runs[r].pc = "merge") =>
            /\ runs[r].merged = Len(runs[r].chunks)
            /\ \A f \in files' : ~ IsPartOf(runs[r].destPath, f)]_vars

\* Both chunks of a download have completed and the merge has appended the
\* two part-files to the destination; its last step is still to come.
MergedTwoParts ==
  \E r \in RunIds :
    /\ runs[r].pc = "merge"
    /\ Len(runs[r].chunks) = 2
    /\ runs[r].merged = 2
    /\ runs[r].destPath \in files
    /\ heap[runs[r].task].status = "downloading"

\* The requests that createTask accepts in the state, in the bounds of the
\* model.
Creatable ==
  { req \in Requests :
      /\ createRouteStatus(req) = 201
      /\ Cardinality(DOMAIN heap) < MaxTasks
      /\ Len(runs) < MaxRuns }

\* The task that createTask returns for the request req, as it is when
\* createTask returns.
Returned(req) == createRouteEffect(Cur, req).heap[FreshId(Cur)]

\* C36 as the spec states it: the task that createTask returns is in the
\* task map, has progress 0 and no error, and has the status pending; it
\* begins to download in a later step.
CreateTaskReturnsPending ==
  \A req \in Creatable :
    /\ FreshId(Cur) \in createRouteEffect(Cur, req).tasks
    /\ Returned(req).progress = 0
    /\ Returned(req).error = NoError
    /\ Returned(req).status = "pending"

\* C36, amended: the task that createTask returns is in the task map, has
\* progress 0 and no error, and has the status downloading already:
\* createTask calls startDownload, which runs up to its first await before
\* createTask returns, so the controller and the Downloader of the task are
\* registered and the probe of its run is under way.
CreateTaskReturnsDownloading ==
  \A req \in Creatable :
    LET T == createRouteEffect(Cur, req)
        id == FreshId(Cur)
    IN  /\ id \in T.tasks
        /\ Returned(req).progress = 0
        /\ Returned(req).error = NoError
        /\ Returned(req).status = "downloading"
        /\ MapHas(T.abortControllers, id)
        /\ MapHas(T.chunkDownloaders, id)
        /\ T.runs[T.abortControllers[id]].task = id
        /\ T.runs[T.abortControllers[id]].pc = "probe"

\* createTask has returned the first task: it is downloading at progress 0
\* and the probe of its run has not been answered.
CreatedTaskDownloads ==
  /\ Len(runs) = 1
  /\ runs[1].pc = "probe"
  /\ runs[1].task \in tasks
  /\ heap[runs[1].task].status = "downloading"
  /\ heap[runs[1].task].progress = 0
  /\ MapHas(abortControllers, runs[1].task)

\* Run old of a task was cancelled by pauseTask and has not ended; run new is
\* the run that resumeTask has started for the same task since, and it is
\* the one whose controller is registered.
Superseded(old, new) ==
  /\ old < new
  /\ runs[old].task = runs[new].task
  /\ runs[old].pc # "ended"
  /\ runs[old].aborted
  /\ MapHas(abortControllers, runs[new].task)
  /\ abortControllers[runs[new].task] = new

\* The part-files that run r has opened and that are on the disk.
PartFilesOf(r) ==
  { PartPath(runs[r].destPath, i - 1) :
      i \in { j \in ChunkIds(r) : runs[r].chunks[j].st \in {"stream", "closing", "done"} } }
    \cap files

\* The step is one of run old and none of run new.
StepOfOnly(old, new) == runs'[old] # runs[old] /\ runs'[new] = runs[new]

\* C38: a run that pauseTask has cancelled, whatever it still does, leaves
\* alone the run that resumeTask has started for the task since: it does not
\* remove or replace the controller or the Downloader registered for the
\* task, removes no part-file of the newer run, and does not change the
\* status of the task.
CancelledRunLeavesNewerRunAlone ==
  [][\A old, new \in RunIds :
       (Superseded(old, new) /\ StepOfOnly(old, new)) =>
         /\ abortControllers' = abortControllers
         /\ chunkDownloaders' = chunkDownloaders
         /\ PartFilesOf(new) \subseteq files'
         /\ heap'[runs[new].task].status = heap[runs[new].task].status]_vars

\* C39: every id that has an entry in abortControllers or in chunkDownloaders
\* is the id of a task of the task map whose status is downloading: no entry
\* outlives an exit of startDownload or a call of deleteTask.
RegisteredIdsAreDownloading ==
  \A id \in DOMAIN abortControllers \cup DOMAIN chunkDownloaders :
    /\ id \in tasks
    /\ heap[id].status = "downloading"

\* A task has failed and has no entry in either map, while another task is
\* downloading with its controller and its Downloader registered.
FailedTaskHasNoEntry ==
  \E id \in tasks :
    /\ heap[id].status = "failed"
    /\ ~ MapHas(abortControllers, id)
    /\ ~ MapHas(chunkDownloaders, id)
    /\ \E other \in tasks \ {id} :
         /\ heap[other].status = "downloading"
         /\ MapHas(abortControllers, other)
         /\ MapHas(chunkDownloaders, other)

\* The state with both sweeps switched on and every file of the disk older
\* than the age limit and larger than the whole budget.
Overdue(S) ==
  [S EXCEPT !.config = [autoCleanupDays |-> 1, autoCleanupMaxMB |-> 1],
            !.now = MaxAge,
            !.stat = [f \in { Resolve(p) : p \in S.files } |-> [size |-> 2, mtimeMs |-> 0]]]

\* The states in which the sweeps end when they run now: runTimeCleanup of
\* the daily tick, both sweeps of a run that begins, and the two alone.
Swept ==
  { runTimeCleanup(Overdue(Cur)),
    runSpaceCleanup(Overdue(Cur)),
    runSpaceCleanup(runTimeCleanup(Overdue(Cur))) }

\* Task id is in T as it is in S: in the map, with the same fields, the same
\* entries in the two maps, and its file and part-files on the disk.
Untouched(S, T, id) ==
  /\ id \in T.tasks
  /\ T.heap[id] = S.heap[id]
  /\ MapHas(T.abortControllers, id) = MapHas(S.abortControllers, id)
  /\ MapHas(T.chunkDownloaders, id) = MapHas(S.chunkDownloaders, id)
  /\ \A f \in S.files :
       (f = S.heap[id].filePath \/ IsPartOf(S.heap[id].filePath, f)) => f \in T.files

====
